---- MODULE Spec2Model ----
(***************************************************************************)
(* RTOScppESP32: C++ wrappers (Lock, Queue, RingBuffer, DataBuffer, Timer,  *)
(* Task) over FreeRTOS kernel objects, and QueueSet, the wait-set that      *)
(* multiplexes locks, queues and ring buffers.                              *)
(*                                                                          *)
(* The wrappers are modelled from src/src/*.h.  The FreeRTOS / ESP-IDF      *)
(* primitives they call (xQueueCreateStatic, xQueueAddToSet, ...) are       *)
(* modelled by their documented behaviour, inside the wrapper operation     *)
(* that calls them.  Booleans returned by the code are 0 / 1 here, pointers *)
(* are addresses (positive integers) and nullptr is NULL.                   *)
(***************************************************************************)
EXTENDS Integers, Sequences, FiniteSets, TLC

\* ------------------------------------------------------------------ bounds
\* template parameter Length of the queue under test
QLen == 2
\* items are drawn from 1..MaxVal
MaxVal == 2
\* a blocking select waits at most MaxTicks ticks
MaxTicks == 2
\* kernel create calls made through one wrapper
MaxCreates == 2
\* template parameter Length, in bytes, of the ring buffer under test
RbLength == 19

\* template parameter MaxCount of the counting semaphore under test
MaxCount == 2
\* nested takes of the recursive mutex made by one task in a scenario
MaxDepth == 2
\* template parameter BufferSize of the stream buffers
BufferSize == 3
\* the period of the timer under test, in ticks
timer_period == 2
\* configTIMER_QUEUE_LENGTH: commands the timer command queue holds
TimerQueueLength == 2

\* ------------------------------------------------------- program constants
NULL == 0
\* RingBufferNoSplit<uint32_t, Length>: item size and item header in bytes
RbItemSize == 4
RbHeaderSize == 8

Min(a, b) == IF a <= b THEN a ELSE b

\* Size aligned to nearest 4 bytes (REQUIRED_SIZE of the ring buffer policies)
Align4(n) == 4 * ((n + 3) \div 4)
RbRequiredSize == Align4(RbLength)
\* bytes one item takes in a no-split ring buffer: aligned data plus header
RbItemCost == Align4(RbItemSize) + RbHeaderSize
\* QueueSet q_set(3 + 1 + 1): queue length + ring buffer items + 1 per lock
SetLen == QLen + (RbRequiredSize \div RbItemCost) + 1

\* ---------------------------------------------------------------- wrappers
\* One wrapper object per name; Kind is its class, Storage its policy.
W == {"q_ext", "rb_ext", "sem", "q_set", "q_set2", "sb_ext", "timer", "task",
      "q_st", "q_overwrite", "sem_count_st", "q_dyn",
      "sem_count_dyn", "mutex_rec_dyn", "mutex_rec_st",
      "rb_sp_dyn", "rb_sp_st", "rb_sp_ext", "rb_item_st",
      "rb_nosp_dyn", "rb_nosp_st", "sb_dyn", "sb_st", "mutex_dyn", "mutex_st"}

Kind(w) ==
  CASE w \in {"q_ext", "q_st", "q_overwrite", "q_dyn"} -> "queue"
    [] w \in {"rb_ext", "rb_item_st", "rb_nosp_dyn", "rb_nosp_st"} -> "ringbuf"
    [] w \in {"rb_sp_dyn", "rb_sp_st", "rb_sp_ext"} -> "splitbuf"
    [] w \in {"sem", "sem_count_st", "sem_count_dyn", "mutex_rec_dyn", "mutex_rec_st",
              "mutex_dyn", "mutex_st"} -> "lock"
    [] w \in {"q_set", "q_set2"} -> "set"
    [] w \in {"sb_ext", "sb_dyn", "sb_st"} -> "buffer"
    [] w = "timer" -> "timer"
    [] w = "task" -> "task"

\* Dynamic and static policies create the kernel object in the constructor
\* (the static ones in a control block of the wrapper, which cannot fail); the
\* external storage policies, Timer and Task wait for create().
Storage(w) ==
  IF w \in {"q_st", "q_overwrite", "sem_count_st", "mutex_rec_st", "rb_sp_st",
             "rb_item_st", "rb_nosp_st", "sb_st", "mutex_st"} THEN "static"
  ELSE IF Kind(w) \in {"lock", "set"}
          \/ w \in {"q_dyn", "rb_sp_dyn", "rb_nosp_dyn", "sb_dyn"} THEN "dynamic"
  ELSE IF Kind(w) \in {"timer", "task"} THEN "explicit"
  ELSE "external"

\* The address of the kernel object a wrapper creates: for static and external
\* storage the control block embedded in the wrapper, so every create of the
\* wrapper yields the same pointer value.
Addr(w) ==
  CASE w = "q_ext" -> 1
    [] w = "rb_ext" -> 2
    [] w = "sem" -> 3
    [] w = "q_set" -> 4
    [] w = "q_set2" -> 5
    [] w = "sb_ext" -> 6
    [] w = "timer" -> 7
    [] w = "task" -> 8
    [] w = "q_st" -> 9
    [] w = "q_overwrite" -> 10
    [] w = "sem_count_st" -> 11
    [] w = "q_dyn" -> 12
    [] w = "sem_count_dyn" -> 13
    [] w = "mutex_rec_dyn" -> 14
    [] w = "mutex_rec_st" -> 15
    [] w = "rb_sp_dyn" -> 16
    [] w = "rb_sp_st" -> 17
    [] w = "rb_sp_ext" -> 18
    [] w = "rb_item_st" -> 19
    [] w = "rb_nosp_dyn" -> 20
    [] w = "rb_nosp_st" -> 21
    [] w = "sb_dyn" -> 22
    [] w = "sb_st" -> 23
    [] w = "mutex_dyn" -> 24
    [] w = "mutex_st" -> 25

Addrs == {Addr(w) : w \in W}

\* the wrappers that join queue sets: queue, rbuffer and sem of test_queuesets.cpp
Members == {"q_ext", "rb_ext", "sem"}
Sets == {w \in W : Kind(w) = "set"}

VARIABLES
  phase,      \* wrapper object: "unborn", "alive" (constructed), "dead" (destroyed)
  handle,     \* wrapper's _handle field: NULL or the address of its kernel object
  kobj,       \* per address: kernel create calls, delete calls, live objects
  store,      \* per address: the items / events / tokens held by the kernel object
  held,       \* per address: ring buffer items received and not yet returned
  container,  \* per address: the queue set the object is a member of, or NULL
  taskParams, \* Task policy members _name, _function, ...: "unset", "valid", "invalid"
  waiting,    \* the consumer task's pending select: [set, ticks, aborted] or NoWait
  nullCall,   \* a kernel primitive was invoked with a null handle
  tmr,        \* the kernel's timer: active, ticks left to expiry, the commands
              \* queued for the timer service task, the callback's timer_expired
  token,      \* the consumer task's local variable: the handle its last select
              \* returned, NULL once it has serviced the member
  isr,        \* the interrupt handler's context: its task_woken flag, and whether
              \* the consumer task's priority is above the interrupted task's
  observed,   \* the operations whose calls are recorded in last (fixed by Init)
  last,       \* the step's wrapper call and what it returned: [op, w, arg, ret],
              \* NoCall after a step of an operation that is not observed
  hist        \* the calls made so far, in order (kept by the specifications
              \* that follow a whole scenario, empty in the others)

vars == <<phase, handle, kobj, store, held, container, taskParams, waiting, nullCall,
          isr, tmr, token, observed, last, hist>>

NoWait == [set |-> "none", ticks |-> 0, aborted |-> FALSE]

\* ticks_to_wait of a call that waits with no timeout (INCLUDE_vTaskSuspend)
portMAX_DELAY == MaxTicks + 1

NoIsr == [woken |-> FALSE, higher |-> FALSE]

\* a timer that is not running, with no command pending
NoTimer == [active |-> FALSE, left |-> 0, cmds |-> <<>>, expired |-> FALSE]

Bool(b) == IF b THEN 1 ELSE 0

NoCall == [op |-> "none", w |-> "none", arg |-> 0, ret |-> 0]

Call(op, w, arg, ret) ==
  IF op \in observed THEN [op |-> op, w |-> w, arg |-> arg, ret |-> ret] ELSE NoCall

\* The step's call is appended to hist in the specifications that keep the
\* history ("history" is in observed).
Recorded ==
  hist' = IF "history" \in observed THEN Append(hist, last') ELSE hist

\* The consumer keeps what select returned (token = q_set.select(..)) and
\* services one member for it, in the specifications that follow the consumer's
\* variable ("token" is in observed).
Selected(ret) ==
  token' = IF "token" \in observed THEN ret ELSE token

Taken ==
  token' = IF "token" \in observed THEN NULL ELSE token

\* every operation of the wrappers
AllOps == {"construct", "create", "destroy", "add", "pop", "getAvailableMessages", "send",
           "sendFromISR", "receive", "returnItem", "give", "take", "set_add", "set_remove",
           "select", "select_blocked", "selectFromISR", "eq",
           "push", "peek", "overwrite", "reset", "getCount"}

isCreated(w) == handle[w] # NULL

\* ------------------------------------------------------------------ kernel
\* x...Create / x...CreateStatic at address a: a new kernel object, empty and
\* in no queue set.  Nothing is deleted: an object already at a is overwritten.
KernelCreate(a) ==
  /\ kobj' = [kobj EXCEPT ![a] = [creates |-> @.creates + 1, deletes |-> @.deletes,
                                  live |-> @.live + 1]]
  /\ store' = [store EXCEPT ![a] = <<>>]
  /\ held' = [held EXCEPT ![a] = 0]
  /\ container' = [container EXCEPT ![a] = NULL]

\* v...Delete(a): the object at a is deleted.
KernelDelete(a) ==
  /\ kobj' = [kobj EXCEPT ![a] = [creates |-> @.creates, deletes |-> @.deletes + 1,
                                  live |-> @.live - 1]]
  /\ UNCHANGED <<store, held, container>>

KernelSame == UNCHANGED <<kobj, store, held, container>>

\* the constructor of w creates the kernel object: always with a static
\* policy, and with a dynamic policy when the kernel finds the memory (ok)
CreatedByConstructor(w, ok) ==
  Storage(w) = "static" \/ (Storage(w) = "dynamic" /\ ok)

\* The state once the wrappers in A have been constructed by their default
\* constructors, the kernel having refused the objects of those in F, with the
\* calls of the operations obs recorded.
Constructed(A, F, obs) ==
  /\ phase = [w \in W |-> IF w \in A THEN "alive" ELSE "unborn"]
  /\ handle = [w \in W |-> IF w \in A /\ CreatedByConstructor(w, w \notin F)
                             THEN Addr(w) ELSE NULL]
  /\ kobj = [a \in Addrs |->
              LET n == Bool(\E w \in A : Addr(w) = a /\ CreatedByConstructor(w, w \notin F))
              IN [creates |-> n, deletes |-> 0, live |-> n]]
  /\ store = [a \in Addrs |-> <<>>]
  /\ held = [a \in Addrs |-> 0]
  /\ container = [a \in Addrs |-> NULL]
  /\ taskParams = "unset"
  /\ waiting = NoWait
  /\ nullCall = FALSE
  /\ isr = NoIsr
  /\ tmr = NoTimer
  /\ token = NULL
  /\ observed = obs
  /\ last = NoCall
  /\ hist = <<>>

Init == Constructed({}, {}, AllOps)

\* ------------------------------------------------------------ construction
\* The constructors.  DynamicPolicy constructors (Lock, QueueSet) call the
\* kernel create, which returns nullptr when the heap is exhausted (ok = FALSE);
\* the other constructors leave _handle == nullptr.
\* For the Task, ok chooses between Task(name, function, priority) with valid
\* arguments (setup stores them; create = false) and the default constructor.
Construct(w, ok) ==
  /\ phase[w] = "unborn"
  /\ phase' = [phase EXCEPT ![w] = "alive"]
  /\ IF CreatedByConstructor(w, ok)
       THEN /\ handle' = [handle EXCEPT ![w] = Addr(w)]
            /\ KernelCreate(Addr(w))
       ELSE /\ handle' = [handle EXCEPT ![w] = NULL]
            /\ KernelSame
  /\ taskParams' = IF Kind(w) = "task" /\ ok THEN "valid" ELSE taskParams
  /\ last' = Call("construct", w, Bool(ok), 0)
  /\ UNCHANGED <<waiting, nullCall, observed, isr, tmr, token>>
  /\ Recorded

\* ------------------------------------------------------------------ create
\* variant: the buffer pointer is not checked
ExternalStoragePolicy_create_unchecked(w, buffer) ==
  /\ phase[w] = "alive" /\ Kind(w) = "queue"
  /\ kobj[Addr(w)].creates < MaxCreates
  /\ handle' = [handle EXCEPT ![w] = Addr(w)]
  /\ KernelCreate(Addr(w))
  /\ last' = Call("create", w, buffer, Bool(handle'[w] # NULL))
  /\ UNCHANGED <<phase, taskParams, waiting, nullCall, observed, isr, tmr, token>>
  /\ Recorded

\* Queue ExternalStoragePolicy::create(buffer).  xQueueCreateStatic returns the
\* address of _queue_buffer; with Length > 0 and a non-null buffer it cannot fail.
ExternalStoragePolicy_create(w, buffer) ==
  /\ phase[w] = "alive" /\ Kind(w) = "queue"
  /\ IF buffer = NULL
       THEN /\ UNCHANGED handle
            /\ KernelSame
            /\ last' = Call("create", w, buffer, 0)
       ELSE /\ kobj[Addr(w)].creates < MaxCreates
            /\ handle' = [handle EXCEPT ![w] = Addr(w)]
            /\ KernelCreate(Addr(w))
            /\ last' = Call("create", w, buffer, Bool(handle'[w] # NULL))
  /\ UNCHANGED <<phase, taskParams, waiting, nullCall, observed, isr, tmr, token>>
  /\ Recorded

\* RingBuffer NoSplitExternalStoragePolicy::create(buffer).
\* xRingbufferCreateStatic returns the address of _ringbuf_buffer and
\* initialises it as an empty buffer; whether the re-initialised control block
\* keeps its queue-set link is left open (keep).
NoSplitExternalStoragePolicy_create(w, buffer, keep) ==
  /\ phase[w] = "alive" /\ Kind(w) = "ringbuf"
  /\ IF buffer = NULL
       THEN /\ UNCHANGED handle
            /\ KernelSame
            /\ last' = Call("create", w, buffer, 0)
       ELSE /\ kobj[Addr(w)].creates < MaxCreates
            /\ handle' = [handle EXCEPT ![w] = Addr(w)]
            /\ kobj' = [kobj EXCEPT ![Addr(w)] = [creates |-> @.creates + 1,
                          deletes |-> @.deletes, live |-> @.live + 1]]
            /\ store' = [store EXCEPT ![Addr(w)] = <<>>]
            /\ held' = [held EXCEPT ![Addr(w)] = 0]
            /\ container' = [container EXCEPT ![Addr(w)] = IF keep THEN @ ELSE NULL]
            /\ last' = Call("create", w, buffer, Bool(handle'[w] # NULL))
  /\ UNCHANGED <<phase, taskParams, waiting, nullCall, observed, isr, tmr, token>>
  /\ Recorded

\* DataBuffer StreamBufferExternalStoragePolicy::create(buffer).
StreamBufferExternalStoragePolicy_create(w, buffer) ==
  /\ phase[w] = "alive" /\ Kind(w) = "buffer"
  /\ IF buffer = NULL
       THEN /\ UNCHANGED handle
            /\ KernelSame
            /\ last' = Call("create", w, buffer, 0)
       ELSE /\ kobj[Addr(w)].creates < MaxCreates
            /\ handle' = [handle EXCEPT ![w] = Addr(w)]
            /\ KernelCreate(Addr(w))
            /\ last' = Call("create", w, buffer, Bool(handle'[w] # NULL))
  /\ UNCHANGED <<phase, taskParams, waiting, nullCall, observed, isr, tmr, token>>
  /\ Recorded

\* ----------------------------------------------------------- stream buffer
\* The size the policy passes to the kernel: BufferSize for the dynamic one,
\* BufferSize + 1 for the static and external ones.
StreamBufferCreateSize(w) ==
  IF Storage(w) = "dynamic" THEN BufferSize ELSE BufferSize + 1

\* variant: the kernel allocates what it is asked for
StreamBufferLength_asked(w) == StreamBufferCreateSize(w)

\* xLength of the kernel's stream buffer: xStreamBufferGenericCreate allocates
\* one byte more than it is asked for, xStreamBufferGenericCreateStatic uses
\* the storage area as it is.
StreamBufferLength(w) ==
  IF Storage(w) = "dynamic" THEN StreamBufferCreateSize(w) + 1
                            ELSE StreamBufferCreateSize(w)

\* DataBuffer::getAvailableBytes(): xStreamBufferBytesAvailable.
getAvailableBytes(w) ==
  IF isCreated(w) THEN Len(store[handle[w]]) ELSE 0

\* DataBuffer::getAvailableSpaces(): xStreamBufferSpacesAvailable, one byte of
\* the buffer being kept free by the kernel.
DataBuffer_getAvailableSpaces(w) ==
  IF isCreated(w) THEN StreamBufferLength(w) - 1 - Len(store[handle[w]]) ELSE 0

\* variant: send puts the bytes before those already in the buffer
DataBuffer_send_front(w, data) ==
  /\ phase[w] = "alive" /\ Kind(w) = "buffer"
  /\ LET n == Min(Len(data), DataBuffer_getAvailableSpaces(w)) IN
       /\ store' = IF n = 0 THEN store
                             ELSE [store EXCEPT ![handle[w]] = SubSeq(data, 1, n) \o @]
       /\ last' = Call("sb_send", w, data, n)
  /\ UNCHANGED <<phase, handle, kobj, held, container, taskParams, waiting, nullCall, observed, isr, tmr, token>>
  /\ Recorded

\* DataBuffer::send(tx_buffer, bytes, 0): xStreamBufferSend writes as many of
\* the bytes as there is room for and returns their number.
DataBuffer_send(w, data) ==
  /\ phase[w] = "alive" /\ Kind(w) = "buffer"
  /\ LET n == Min(Len(data), DataBuffer_getAvailableSpaces(w)) IN
       /\ store' = IF n = 0 THEN store
                             ELSE [store EXCEPT ![handle[w]] = @ \o SubSeq(data, 1, n)]
       /\ last' = Call("sb_send", w, data, n)
  /\ UNCHANGED <<phase, handle, kobj, held, container, taskParams, waiting, nullCall, observed, isr, tmr, token>>
  /\ Recorded

\* DataBuffer::receive(rx_buffer, bytes, 0): xStreamBufferReceive takes up to
\* bytes bytes from the front; ret is the bytes received (<<>>: 0).
DataBuffer_receive(w, bytes) ==
  /\ phase[w] = "alive" /\ Kind(w) = "buffer"
  /\ LET n == Min(bytes, getAvailableBytes(w)) IN
       /\ store' = IF n = 0 THEN store
                             ELSE [store EXCEPT ![handle[w]] = SubSeq(@, n + 1, Len(@))]
       /\ last' = Call("sb_receive", w, bytes,
                       IF n = 0 THEN <<>> ELSE SubSeq(store[handle[w]], 1, n))
  /\ UNCHANGED <<phase, handle, kobj, held, container, taskParams, waiting, nullCall, observed, isr, tmr, token>>
  /\ Recorded

\* DataBuffer::reset(): xStreamBufferReset empties the buffer (no task is
\* blocked on it).
DataBuffer_reset(w) ==
  /\ phase[w] = "alive" /\ Kind(w) = "buffer"
  /\ store' = IF isCreated(w) THEN [store EXCEPT ![handle[w]] = <<>>] ELSE store
  /\ last' = Call("sb_reset", w, 0, Bool(isCreated(w)))
  /\ UNCHANGED <<phase, handle, kobj, held, container, taskParams, waiting, nullCall, observed, isr, tmr, token>>
  /\ Recorded

\* Timer Policy::create(name, callback, period, ...) with DynamicPolicy::createImpl.
\* valid: name != nullptr, callback != nullptr and period != 0; ok: xTimerCreate
\* found memory.  arg of the call record: 2 * valid + ok.
Timer_create(w, valid, ok) ==
  /\ phase[w] = "alive" /\ Kind(w) = "timer"
  /\ IF handle[w] # NULL
       THEN /\ UNCHANGED handle
            /\ KernelSame
            /\ last' = Call("create", w, 2 * Bool(valid) + Bool(ok), 1)
       ELSE IF ~valid
         THEN /\ UNCHANGED handle
              /\ KernelSame
              /\ last' = Call("create", w, 2 * Bool(valid) + Bool(ok), 0)
         ELSE IF ok
           THEN /\ handle' = [handle EXCEPT ![w] = Addr(w)]
                /\ KernelCreate(Addr(w))
                /\ last' = Call("create", w, 2 * Bool(valid) + Bool(ok), 1)
           ELSE /\ handle' = [handle EXCEPT ![w] = NULL]
                /\ KernelSame
                /\ last' = Call("create", w, 2 * Bool(valid) + Bool(ok), 0)
  /\ UNCHANGED <<phase, taskParams, waiting, nullCall, observed, isr, tmr, token>>
  /\ Recorded

\* xTimerStart / xTimerStop / xTimerReset: the command is put, with the tick
\* count of the call (here: its age 0), in the timer command queue, from
\* which the timer service task takes it.  The call waits for room in the queue.
TimerCommand(w, op) ==
  /\ phase[w] = "alive" /\ Kind(w) = "timer"
  /\ IF ~isCreated(w)
       THEN /\ UNCHANGED tmr
            /\ last' = Call(op, w, 0, 0)
       ELSE /\ Len(tmr.cmds) < TimerQueueLength
            /\ tmr' = [tmr EXCEPT !.cmds = Append(@, [op |-> op, age |-> 0])]
            /\ last' = Call(op, w, 0, 1)
  /\ UNCHANGED <<phase, handle, kobj, store, held, container, taskParams, waiting, nullCall, observed, isr, token>>
  /\ Recorded

\* Timer::start().
Timer_start(w) == TimerCommand(w, "start")

\* Timer::stop().
Timer_stop(w) == TimerCommand(w, "stop")

\* Timer::reset().
Timer_reset(w) == TimerCommand(w, "reset")

\* Timer::isActive(): xTimerIsTimerActive reads the timer's state.
isActive(w) == isCreated(w) /\ tmr.active

Timer_isActive(w) ==
  /\ phase[w] = "alive" /\ Kind(w) = "timer"
  /\ last' = Call("isActive", w, 0, Bool(isActive(w)))
  /\ UNCHANGED tmr
  /\ UNCHANGED <<phase, handle, kobj, store, held, container, taskParams, waiting, nullCall, observed, isr, token>>
  /\ Recorded

\* A tick of the kernel: the running timer is one tick nearer to its expiry,
\* the pending commands one tick older.
TimerTick ==
  /\ \/ tmr.active /\ tmr.left > 0
     \/ \E i \in 1..Len(tmr.cmds) : tmr.cmds[i].age < timer_period
  /\ tmr' = [tmr EXCEPT
               !.left = IF tmr.active /\ @ > 0 THEN @ - 1 ELSE @,
               !.cmds = [i \in 1..Len(@) |->
                          [@[i] EXCEPT !.age = Min(timer_period, @ + 1)]]]
  /\ last' = NoCall
  /\ UNCHANGED <<phase, handle, kobj, store, held, container, taskParams, waiting, nullCall, observed, isr, token>>
  /\ Recorded

\* variant: the timer is reloaded when it expires
TimerTask_reload ==
  /\ IF tmr.active /\ tmr.left = 0
       THEN /\ tmr' = [tmr EXCEPT !.left = timer_period, !.expired = TRUE]
            /\ last' = Call("timerCb", "timer", 0, 1)
       ELSE /\ tmr.cmds # <<>>
            /\ LET c == Head(tmr.cmds) IN
                 tmr' = [tmr EXCEPT
                           !.cmds = Tail(@),
                           !.active = (c.op # "stop"),
                           !.left = IF c.op = "stop" THEN 0 ELSE timer_period - c.age]
            /\ last' = Call("timerTask", "timer", 0, 0)
  /\ UNCHANGED <<phase, handle, kobj, store, held, container, taskParams, waiting, nullCall, observed, isr, token>>
  /\ Recorded

\* The timer service task runs: it calls the callback of the timer that has
\* expired (timerCb sets timer_expired; the timer is one-shot and becomes
\* inactive), and otherwise takes one command from the queue: start and
\* reset make the timer expire one period after the command was sent, stop
\* makes it inactive.
TimerTask ==
  /\ IF tmr.active /\ tmr.left = 0
       THEN /\ tmr' = [tmr EXCEPT !.active = FALSE, !.expired = TRUE]
            /\ last' = Call("timerCb", "timer", 0, 1)
       ELSE /\ tmr.cmds # <<>>
            /\ LET c == Head(tmr.cmds) IN
                 tmr' = [tmr EXCEPT
                           !.cmds = Tail(@),
                           !.active = (c.op # "stop"),
                           !.left = IF c.op = "stop" THEN 0 ELSE timer_period - c.age]
            /\ last' = Call("timerTask", "timer", 0, 0)
  /\ UNCHANGED <<phase, handle, kobj, store, held, container, taskParams, waiting, nullCall, observed, isr, token>>
  /\ Recorded

\* Task Policy::isValid() on the stored parameters.
isValid == taskParams = "valid"

\* Task Policy::create() with StaticPolicy::createImpl
\* (xTaskCreateStaticPinnedToCore returns the address of _tcb).
Policy_create(w) ==
  IF ~isValid
    THEN /\ UNCHANGED handle
         /\ KernelSame
         /\ last' = Call("create", w, 0, 0)
    ELSE IF isCreated(w)
      THEN /\ UNCHANGED handle
           /\ KernelSame
           /\ last' = Call("create", w, 0, 1)
      ELSE /\ handle' = [handle EXCEPT ![w] = Addr(w)]
           /\ KernelCreate(Addr(w))
           /\ last' = Call("create", w, 0, Bool(handle'[w] # NULL))

\* Task::create(): the parameters stored earlier are used.
Task_create(w) ==
  /\ phase[w] = "alive" /\ Kind(w) = "task"
  /\ Policy_create(w)
  /\ UNCHANGED <<phase, taskParams, waiting, nullCall, observed, isr, tmr, token>>
  /\ Recorded

\* Task::create(name, function, priority, ...): setup() stores the arguments,
\* valid or not, and create() runs if they are valid.
Task_createWith(w, valid) ==
  /\ phase[w] = "alive" /\ Kind(w) = "task"
  /\ taskParams' = IF valid THEN "valid" ELSE "invalid"
  /\ IF ~valid
       THEN /\ UNCHANGED handle
            /\ KernelSame
            /\ last' = Call("create", w, 1, 0)
       ELSE IF isCreated(w)
         THEN /\ UNCHANGED handle
              /\ KernelSame
              /\ last' = Call("create", w, 2, 1)
         ELSE /\ handle' = [handle EXCEPT ![w] = Addr(w)]
              /\ KernelCreate(Addr(w))
              /\ last' = Call("create", w, 2, Bool(handle'[w] # NULL))
  /\ UNCHANGED <<phase, waiting, nullCall, observed, isr, tmr, token>>
  /\ Recorded

\* ------------------------------------------------------------- destruction
\* variant: the destructor takes the object out of its queue set before the
\* kernel delete
Destructor_unregister(w) ==
  /\ phase[w] = "alive"
  /\ phase' = [phase EXCEPT ![w] = "dead"]
  /\ IF handle[w] # NULL
       THEN /\ kobj' = [kobj EXCEPT ![handle[w]] = [creates |-> @.creates,
                           deletes |-> @.deletes + 1, live |-> @.live - 1]]
            /\ container' = [container EXCEPT ![handle[w]] = NULL]
            /\ UNCHANGED <<store, held>>
       ELSE KernelSame
  /\ handle' = [handle EXCEPT ![w] = NULL]
  /\ last' = Call("destroy", w, 0, 0)
  /\ UNCHANGED <<taskParams, waiting, nullCall, observed, isr, tmr, token>>
  /\ Recorded

\* ~Queue, ~RingBuffer, ~Lock, ~DataBuffer, ~Timer, ~Task, ~QueueSet: the
\* kernel delete is called iff the handle is set; the object, with its _handle
\* member, is gone afterwards.
Destructor(w) ==
  /\ phase[w] = "alive"
  /\ phase' = [phase EXCEPT ![w] = "dead"]
  /\ IF handle[w] # NULL
       THEN KernelDelete(handle[w])
       ELSE KernelSame
  /\ handle' = [handle EXCEPT ![w] = NULL]
  /\ last' = Call("destroy", w, 0, 0)
  /\ UNCHANGED <<taskParams, waiting, nullCall, observed, isr, tmr, token>>
  /\ Recorded

\* ------------------------------------------------------------- queue sets
\* variant: a set that holds one event fewer than its members can signal
Post_short(st, a) ==
  LET s == container[a] IN
    IF s # NULL /\ Len(st[s]) < SetLen - 1 THEN [st EXCEPT ![s] = Append(@, a)] ELSE st

\* variant: a send to a member posts its handle to the set twice
Post_twice(st, a) ==
  LET s == container[a] IN
    IF s # NULL /\ Len(st[s]) + 1 < SetLen THEN [st EXCEPT ![s] = @ \o <<a, a>>] ELSE st

\* prvNotifyQueueSetContainer / the ring buffer's xQueueSend to its queue set:
\* a successful send to a member posts the member's handle to its set, if the
\* set has room (the kernel asserts that it has).
Post(st, a) ==
  LET s == container[a] IN
    IF s # NULL /\ Len(st[s]) < SetLen THEN [st EXCEPT ![s] = Append(@, a)] ELSE st

\* -------------------------------------------------------- interrupt context
\* An interrupt arrives: its handler starts with BaseType_t task_woken = pdFALSE.
\* higher: the consumer task has a priority above that of the interrupted task.
Interrupt(higher) ==
  /\ isr' = [woken |-> FALSE, higher |-> higher]
  /\ last' = NoCall
  /\ UNCHANGED <<phase, handle, kobj, store, held, container, taskParams, waiting, nullCall, observed, tmr, token>>
  /\ Recorded

\* A send to the object a posts to its queue set and finds the consumer task
\* blocked on it: the kernel moves the task from the set's event list to the
\* ready list (xTaskRemoveFromEventList).
Unblocks(a) ==
  /\ container[a] # NULL
  /\ waiting # NoWait
  /\ handle[waiting.set] = container[a]
  /\ store[container[a]] = <<>>

\* variant: the flag is set whenever a task was made ready, whatever its priority
Woken_any(a, sent) ==
  [isr EXCEPT !.woken = @ \/ (sent /\ Unblocks(a))]

\* pxHigherPriorityTaskWoken of the kernel's FromISR send functions: set to
\* pdTRUE when the send made ready a task of a priority above the interrupted
\* task's, left as it is otherwise.
Woken(a, sent) ==
  [isr EXCEPT !.woken = @ \/ (sent /\ Unblocks(a) /\ isr.higher)]

\* ------------------------------------------------------------------- Queue
\* template parameter Length of the queue w
QueueLength(w) == IF w = "q_overwrite" THEN 1 ELSE QLen

\* variant: add on a full queue makes room by dropping the oldest item
Queue_add_drop(w, item) ==
  /\ phase[w] = "alive" /\ Kind(w) = "queue"
  /\ IF ~isCreated(w)
       THEN /\ UNCHANGED store
            /\ last' = Call("add", w, item, 0)
       ELSE IF Len(store[handle[w]]) < QueueLength(w)
         THEN /\ store' = Post([store EXCEPT ![handle[w]] = Append(@, item)], handle[w])
              /\ last' = Call("add", w, item, 1)
         ELSE /\ store' = [store EXCEPT ![handle[w]] = Append(Tail(@), item)]
              /\ last' = Call("add", w, item, 0)
  /\ UNCHANGED <<phase, handle, kobj, held, container, taskParams, waiting, nullCall, observed, isr, tmr, token>>
  /\ Recorded

\* variant: add puts the item at the front of the queue
Queue_add_front(w, item) ==
  /\ phase[w] = "alive" /\ Kind(w) = "queue"
  /\ IF isCreated(w) /\ Len(store[handle[w]]) < QueueLength(w)
       THEN /\ store' = Post([store EXCEPT ![handle[w]] = <<item>> \o @], handle[w])
            /\ last' = Call("add", w, item, 1)
       ELSE /\ UNCHANGED store
            /\ last' = Call("add", w, item, 0)
  /\ UNCHANGED <<phase, handle, kobj, held, container, taskParams, waiting, nullCall, observed, isr, tmr, token>>
  /\ Recorded

\* Queue::add(item, 0): xQueueSendToBack.
Queue_add(w, item) ==
  /\ phase[w] = "alive" /\ Kind(w) = "queue"
  /\ IF ~isCreated(w)
       THEN /\ UNCHANGED store
            /\ last' = Call("add", w, item, 0)
       ELSE IF Len(store[handle[w]]) < QueueLength(w)
         THEN /\ store' = Post([store EXCEPT ![handle[w]] = Append(@, item)], handle[w])
              /\ last' = Call("add", w, item, 1)
         ELSE /\ UNCHANGED store
              /\ last' = Call("add", w, item, 0)
  /\ UNCHANGED <<phase, handle, kobj, held, container, taskParams, waiting, nullCall, observed, isr, tmr, token>>
  /\ Recorded

\* Queue::addFromISR(item, task_woken): xQueueSendToBackFromISR.
Queue_addFromISR(w, item) ==
  /\ phase[w] = "alive" /\ Kind(w) = "queue"
  /\ IF isCreated(w) /\ Len(store[handle[w]]) < QueueLength(w)
       THEN /\ store' = Post([store EXCEPT ![handle[w]] = Append(@, item)], handle[w])
            /\ isr' = Woken(handle[w], TRUE)
            /\ last' = Call("addFromISR", w, item, 1)
       ELSE /\ UNCHANGED <<store, isr>>
            /\ last' = Call("addFromISR", w, item, 0)
  /\ UNCHANGED <<phase, handle, kobj, held, container, taskParams, waiting, nullCall, observed, tmr, token>>
  /\ Recorded

\* Queue::pushFromISR(item, task_woken): xQueueSendToFrontFromISR.
Queue_pushFromISR(w, item) ==
  /\ phase[w] = "alive" /\ Kind(w) = "queue"
  /\ IF isCreated(w) /\ Len(store[handle[w]]) < QueueLength(w)
       THEN /\ store' = Post([store EXCEPT ![handle[w]] = <<item>> \o @], handle[w])
            /\ isr' = Woken(handle[w], TRUE)
            /\ last' = Call("pushFromISR", w, item, 1)
       ELSE /\ UNCHANGED <<store, isr>>
            /\ last' = Call("pushFromISR", w, item, 0)
  /\ UNCHANGED <<phase, handle, kobj, held, container, taskParams, waiting, nullCall, observed, tmr, token>>
  /\ Recorded

\* Queue::popFromISR(var, task_woken): xQueueReceiveFromISR; ret is the item
\* popped (0: false).  The receive can make ready only a task blocked in a
\* send to the full queue; the tasks here send with no wait, so the flag is
\* left as it is.
Queue_popFromISR(w) ==
  /\ phase[w] = "alive" /\ Kind(w) = "queue"
  /\ IF isCreated(w) /\ store[handle[w]] # <<>>
       THEN /\ store' = [store EXCEPT ![handle[w]] = Tail(@)]
            /\ last' = Call("popFromISR", w, 0, Head(store[handle[w]]))
       ELSE /\ UNCHANGED store
            /\ last' = Call("popFromISR", w, 0, 0)
  /\ UNCHANGED <<phase, handle, kobj, held, container, taskParams, waiting, nullCall, observed, isr, tmr, token>>
  /\ Recorded

\* variant: pop reads the item and leaves it in the queue
Queue_pop_keep(w) ==
  /\ phase[w] = "alive" /\ Kind(w) = "queue"
  /\ last' = Call("pop", w, 0,
                  IF isCreated(w) /\ store[handle[w]] # <<>>
                    THEN Head(store[handle[w]]) ELSE 0)
  /\ UNCHANGED <<phase, handle, kobj, store, held, container, taskParams, waiting, nullCall, observed, isr, tmr, token>>
  /\ Recorded

\* Queue::pop(var, 0): xQueueReceive; ret is the item popped (0: false).
Queue_pop(w) ==
  /\ phase[w] = "alive" /\ Kind(w) = "queue"
  /\ IF ~isCreated(w)
       THEN /\ UNCHANGED store
            /\ last' = Call("pop", w, 0, 0)
       ELSE IF store[handle[w]] # <<>>
         THEN /\ store' = [store EXCEPT ![handle[w]] = Tail(@)]
              /\ last' = Call("pop", w, 0, Head(store[handle[w]]))
         ELSE /\ UNCHANGED store
              /\ last' = Call("pop", w, 0, 0)
  /\ UNCHANGED <<phase, handle, kobj, held, container, taskParams, waiting, nullCall, observed, isr, tmr>>
  /\ Taken
  /\ Recorded

\* Queue::getAvailableMessages(): uxQueueMessagesWaiting.
Queue_getAvailableMessages(w) ==
  /\ phase[w] = "alive" /\ Kind(w) = "queue"
  /\ last' = Call("getAvailableMessages", w, 0,
                  IF ~isCreated(w) THEN 0 ELSE Len(store[handle[w]]))
  /\ UNCHANGED <<phase, handle, kobj, store, held, container, taskParams, waiting, nullCall, observed, isr, tmr, token>>
  /\ Recorded

\* Queue::getAvailableMessages(), as a value: uxQueueMessagesWaiting
getAvailableMessages(w) == IF ~isCreated(w) THEN 0 ELSE Len(store[handle[w]])

\* Queue::getAvailableSpaces(): uxQueueSpacesAvailable
getAvailableSpaces(w) ==
  IF ~isCreated(w) THEN 0 ELSE QueueLength(w) - Len(store[handle[w]])

\* variant: the queue is taken to be full as soon as it holds an item
isFull_nonempty(w) == IF ~isCreated(w) THEN FALSE ELSE Len(store[handle[w]]) > 0

\* Queue::isFull(): uxQueueSpacesAvailable(getHandle()) == 0
isFull(w) == IF ~isCreated(w) THEN FALSE ELSE QueueLength(w) - Len(store[handle[w]]) = 0

\* Queue::isEmpty(): uxQueueMessagesWaiting(getHandle()) == 0
isEmpty(w) == IF ~isCreated(w) THEN FALSE ELSE Len(store[handle[w]]) = 0

\* variant: push puts the item at the back of the queue
Queue_push_back(w, item) ==
  /\ phase[w] = "alive" /\ Kind(w) = "queue"
  /\ IF isCreated(w) /\ Len(store[handle[w]]) < QueueLength(w)
       THEN /\ store' = Post([store EXCEPT ![handle[w]] = Append(@, item)], handle[w])
            /\ last' = Call("push", w, item, 1)
       ELSE /\ UNCHANGED store
            /\ last' = Call("push", w, item, 0)
  /\ UNCHANGED <<phase, handle, kobj, held, container, taskParams, waiting, nullCall, observed, isr, tmr, token>>
  /\ Recorded

\* Queue::push(item, 0): xQueueSendToFront.
Queue_push(w, item) ==
  /\ phase[w] = "alive" /\ Kind(w) = "queue"
  /\ IF ~isCreated(w)
       THEN /\ UNCHANGED store
            /\ last' = Call("push", w, item, 0)
       ELSE IF Len(store[handle[w]]) < QueueLength(w)
         THEN /\ store' = Post([store EXCEPT ![handle[w]] = <<item>> \o @], handle[w])
              /\ last' = Call("push", w, item, 1)
         ELSE /\ UNCHANGED store
              /\ last' = Call("push", w, item, 0)
  /\ UNCHANGED <<phase, handle, kobj, held, container, taskParams, waiting, nullCall, observed, isr, tmr, token>>
  /\ Recorded

\* variant: peek takes the item out of the queue
Queue_peek_take(w) ==
  /\ phase[w] = "alive" /\ Kind(w) = "queue"
  /\ IF ~isCreated(w)
       THEN /\ UNCHANGED store
            /\ last' = Call("peek", w, 0, 0)
       ELSE IF store[handle[w]] # <<>>
         THEN /\ store' = [store EXCEPT ![handle[w]] = Tail(@)]
              /\ last' = Call("peek", w, 0, Head(store[handle[w]]))
         ELSE /\ UNCHANGED store
              /\ last' = Call("peek", w, 0, 0)
  /\ UNCHANGED <<phase, handle, kobj, held, container, taskParams, waiting, nullCall, observed, isr, tmr, token>>
  /\ Recorded

\* Queue::peek(var, 0): xQueuePeek; ret is the item read (0: false).
Queue_peek(w) ==
  /\ phase[w] = "alive" /\ Kind(w) = "queue"
  /\ last' = Call("peek", w, 0,
                  IF isCreated(w) /\ store[handle[w]] # <<>>
                    THEN Head(store[handle[w]]) ELSE 0)
  /\ UNCHANGED <<phase, handle, kobj, store, held, container, taskParams, waiting, nullCall, observed, isr, tmr, token>>
  /\ Recorded

\* variant: overwrite fails on a full queue, as add does
Queue_overwrite_add(w, item) ==
  /\ phase[w] = "alive" /\ Kind(w) = "queue"
  /\ IF ~isCreated(w)
       THEN /\ UNCHANGED store
            /\ last' = Call("overwrite", w, item, 0)
       ELSE IF Len(store[handle[w]]) < QueueLength(w)
         THEN /\ store' = Post([store EXCEPT ![handle[w]] = Append(@, item)], handle[w])
              /\ last' = Call("overwrite", w, item, 1)
         ELSE /\ UNCHANGED store
              /\ last' = Call("overwrite", w, item, 0)
  /\ UNCHANGED <<phase, handle, kobj, held, container, taskParams, waiting, nullCall, observed, isr, tmr, token>>
  /\ Recorded

\* Queue::overwrite(item): xQueueOverwrite, which the kernel accepts on a
\* queue of length 1 only (it asserts otherwise).  The item replaces the one
\* held; the queue set is notified only if the queue was empty.
Queue_overwrite(w, item) ==
  /\ phase[w] = "alive" /\ Kind(w) = "queue"
  /\ IF ~isCreated(w)
       THEN /\ UNCHANGED store
            /\ last' = Call("overwrite", w, item, 0)
       ELSE /\ QueueLength(w) = 1
            /\ store' = IF store[handle[w]] = <<>>
                          THEN Post([store EXCEPT ![handle[w]] = <<item>>], handle[w])
                          ELSE [store EXCEPT ![handle[w]] = <<item>>]
            /\ last' = Call("overwrite", w, item, 1)
  /\ UNCHANGED <<phase, handle, kobj, held, container, taskParams, waiting, nullCall, observed, isr, tmr, token>>
  /\ Recorded

\* Queue::reset(): xQueueReset empties the queue.  On the created path the
\* function ends without a return statement, so the value the caller gets is
\* whatever the build leaves there (r).
Queue_reset(w, r) ==
  /\ phase[w] = "alive" /\ Kind(w) = "queue"
  /\ IF ~isCreated(w)
       THEN /\ r = 0
            /\ UNCHANGED store
            /\ last' = Call("reset", w, 0, 0)
       ELSE /\ store' = [store EXCEPT ![handle[w]] = <<>>]
            /\ last' = Call("reset", w, 0, r)
  /\ UNCHANGED <<phase, handle, kobj, held, container, taskParams, waiting, nullCall, observed, isr, tmr, token>>
  /\ Recorded

\* -------------------------------------------------------------- RingBuffer
\* template parameter Length of the no-split ring buffer at a: rb_item_st is
\* RingBufferNoSplitStatic<uint32_t, sizeof(uint32_t)>, a buffer declared with
\* the size of one item
RbLengthOf(a) == IF a = Addr("rb_item_st") THEN RbItemSize ELSE RbLength
\* REQUIRED_SIZE, the size the static and external policies hand to the kernel
RbRequiredSizeOf(a) == Align4(RbLengthOf(a))

\* the wrapper whose kernel object is at a
Owner(a) == CHOOSE w \in W : Addr(w) = a

\* The size the policy passes to the kernel: NoSplitDynamicPolicy passes
\* Length, the static and external policies REQUIRED_SIZE.
RingbufferCreateSize(a) ==
  IF Storage(Owner(a)) = "dynamic" THEN RbLengthOf(a) ELSE RbRequiredSizeOf(a)

\* The kernel-side buffer size: xRingbufferCreate rounds the size of a
\* no-split buffer up to a multiple of 4; xRingbufferCreateStatic is given
\* one.
RingbufferSize(a) == Align4(RingbufferCreateSize(a))

\* free bytes of the no-split buffer at a: unread and unreturned items take
\* RbItemCost bytes each
RbFree(a) == RingbufferSize(a) - (Len(store[a]) + held[a]) * RbItemCost

\* xRingbufferGetMaxItemSize of the no-split buffer at a: the item must fit
\* with its header in half of the buffer
RbMaxItemSize(a) == Align4(RingbufferSize(a) \div 2) - RbHeaderSize

\* RingBuffer::getMaxItemSize(): xRingbufferGetMaxItemSize.
getMaxItemSize(w) == IF isCreated(w) THEN RbMaxItemSize(handle[w]) ELSE 0

\* RingBuffer::getFreeSize(): xRingbufferGetCurFreeSize, the largest item the
\* buffer would take now: the free bytes less one header, at most the
\* maximum item size.
getFreeSize(w) ==
  IF ~isCreated(w) \/ RbFree(handle[w]) < RbHeaderSize THEN 0
  ELSE Min(RbMaxItemSize(handle[w]), RbFree(handle[w]) - RbHeaderSize)

\* xRingbufferSend finds room for an item of RbItemSize bytes
RingbufferFits(a) == RbItemSize <= RbMaxItemSize(a) /\ RbFree(a) >= RbItemCost

\* xRingbufferSend(handle, item, item_size, 0) on a created ring buffer
RingbufferSend(a, item) ==
  IF RingbufferFits(a)
    THEN Post([store EXCEPT ![a] = Append(@, item)], a)
    ELSE store

\* Policy::send(item, item_size, 0).
RingBuffer_send(w, item) ==
  /\ phase[w] = "alive" /\ Kind(w) = "ringbuf"
  /\ IF ~isCreated(w)
       THEN /\ UNCHANGED store
            /\ last' = Call("send", w, item, 0)
       ELSE /\ store' = RingbufferSend(handle[w], item)
            /\ last' = Call("send", w, item, Bool(RingbufferFits(handle[w])))
  /\ UNCHANGED <<phase, handle, kobj, held, container, taskParams, waiting, nullCall, observed, isr, tmr, token>>
  /\ Recorded

\* Policy::sendFromISR(item, item_size, task_woken): no isCreated() test, the
\* handle goes to xRingbufferSendFromISR as it is.  With a null handle the
\* kernel dereferences it (or stops in configASSERT): the value returned, if
\* any, is arbitrary (r).
RingBuffer_sendFromISR(w, item, r) ==
  /\ phase[w] = "alive" /\ Kind(w) = "ringbuf"
  /\ IF handle[w] = NULL
       THEN /\ nullCall' = TRUE
            /\ UNCHANGED <<store, isr>>
            /\ last' = Call("sendFromISR", w, item, r)
       ELSE /\ r = 0
            /\ UNCHANGED nullCall
            /\ store' = RingbufferSend(handle[w], item)
            /\ isr' = Woken(handle[w], RingbufferFits(handle[w]))
            /\ last' = Call("sendFromISR", w, item, Bool(RingbufferFits(handle[w])))
  /\ UNCHANGED <<phase, handle, kobj, held, container, taskParams, waiting, observed, tmr, token>>
  /\ Recorded

\* variant: the space of an item is free again as soon as it is received
RingBuffer_receive_free(w) ==
  /\ phase[w] = "alive" /\ Kind(w) = "ringbuf"
  /\ IF ~isCreated(w) \/ store[handle[w]] = <<>>
       THEN /\ UNCHANGED store
            /\ last' = Call("receive", w, 0, 0)
       ELSE /\ store' = [store EXCEPT ![handle[w]] = Tail(@)]
            /\ last' = Call("receive", w, 0, Head(store[handle[w]]))
  /\ UNCHANGED <<phase, handle, kobj, held, container, taskParams, waiting, nullCall, observed, isr, tmr, token>>
  /\ Recorded

\* NoSplitPolicy::receive(item_size, 0): xRingbufferReceive; ret is the item
\* received (0: nullptr).  The item stays in the buffer until it is returned.
RingBuffer_receive(w) ==
  /\ phase[w] = "alive" /\ Kind(w) = "ringbuf"
  /\ IF ~isCreated(w)
       THEN /\ UNCHANGED <<store, held>>
            /\ last' = Call("receive", w, 0, 0)
       ELSE IF store[handle[w]] # <<>>
         THEN /\ store' = [store EXCEPT ![handle[w]] = Tail(@)]
              /\ held' = [held EXCEPT ![handle[w]] = @ + 1]
              /\ last' = Call("receive", w, 0, Head(store[handle[w]]))
         ELSE /\ UNCHANGED <<store, held>>
              /\ last' = Call("receive", w, 0, 0)
  /\ UNCHANGED <<phase, handle, kobj, container, taskParams, waiting, nullCall, observed, isr, tmr>>
  /\ Taken
  /\ Recorded

\* Policy::returnItem(item): vRingbufferReturnItem for an item received before.
RingBuffer_returnItem(w) ==
  /\ phase[w] = "alive" /\ Kind(w) = "ringbuf"
  /\ IF ~isCreated(w)
       THEN /\ UNCHANGED held
            /\ last' = Call("returnItem", w, 0, 0)
       ELSE /\ held[handle[w]] > 0
            /\ held' = [held EXCEPT ![handle[w]] = @ - 1]
            /\ last' = Call("returnItem", w, 0, 1)
  /\ UNCHANGED <<phase, handle, kobj, store, container, taskParams, waiting, nullCall, observed, isr, tmr, token>>
  /\ Recorded

\* ------------------------------------------------- RingBuffer, allow-split
\* rb_len of test_ringbuffers.cpp, the Length of the ring buffers under test
SplitLen == 64
\* REQUIRED_SIZE of the split policies: size aligned to nearest 4 bytes
SplitRequiredSize == Align4(SplitLen)
\* sizes of small_item and of large_item / split_item
SmallSize == 8
LargeSize == 20
SplitSizes == {SmallSize, LargeSize}

\* the bytes of the item of n bytes sent by the send number tag
Item(tag, n) == [i \in 1..n |-> 100 * tag + i]

\* The kernel object of an allow-split ring buffer: store holds, in the order
\* they were written, the segments of the buffer that are not yet free again.
\* A segment is an item header followed by data: pos is its offset, cost its
\* bytes (header and aligned data), kind "whole" (an item in one piece),
\* "head" / "tail" (the two parts of an item split at the end of the buffer)
\* or "dummy" (a header that fills the end of the buffer), st "unread", "held"
\* (received, not returned) or "free", next the write offset after it.
\* The last segment is kept when free: it holds the write offset.
\* pucAcquire
SplitAcquire(s) == IF s = <<>> THEN 0 ELSE s[Len(s)].next

\* pucFree: the offset of the oldest segment that is not free
SplitFree(s) == IF s = <<>> \/ s[1].st = "free" THEN SplitAcquire(s) ELSE s[1].pos

\* rbBUFFER_FULL_FLAG
SplitFull(s) == s # <<>> /\ s[1].st # "free" /\ SplitAcquire(s) = s[1].pos

\* the free pointer moves over the oldest segments that are free
RECURSIVE SplitCompact(_)
SplitCompact(s) ==
  IF Len(s) > 1 /\ s[1].st = "free" THEN SplitCompact(Tail(s)) ELSE s

\* the write offset after a segment that ends at offset e: back to the start
\* when not even a header fits in what is left
SplitWrap(e, size) == IF size - e < RbHeaderSize THEN 0 ELSE e

\* xRingbufferGetMaxItemSize of an allow-split buffer
SplitMaxItemSize(size) == size - 2 * RbHeaderSize

\* prvCheckItemFitsDefault, after the test of the item size against
\* xMaxItemSize in xRingbufferSend
SplitFits(s, n, size) ==
  LET total == Align4(n) + RbHeaderSize
      acq == SplitAcquire(s)
      fr == SplitFree(s)
  IN /\ n <= SplitMaxItemSize(size)
     /\ IF acq = fr THEN ~SplitFull(s)
        ELSE IF fr > acq THEN total <= fr - acq
        ELSE \/ total <= size - acq
             \/ total + RbHeaderSize <= size - (acq - fr)

\* variant: an item that does not fit at the end of the buffer is written
\* whole at the start, after a dummy header
SplitCopy_nosplit(s, data, size) ==
  LET acq == SplitAcquire(s)
      n == Len(data)
      total == Align4(n) + RbHeaderSize
  IN IF size - acq < total
       THEN s \o <<[pos |-> acq, cost |-> size - acq, data |-> <<>>, kind |-> "dummy",
                     st |-> "free", next |-> 0],
                   [pos |-> 0, cost |-> total, data |-> data, kind |-> "whole",
                     st |-> "unread", next |-> SplitWrap(total, size)]>>
       ELSE Append(s, [pos |-> acq, cost |-> total, data |-> data, kind |-> "whole",
                       st |-> "unread", next |-> SplitWrap(acq + total, size)])

\* prvCopyItemAllowSplit: the item is written at the write offset; when the
\* bytes left to the end of the buffer cannot take it with its header, they
\* take a header and the first bytes of the item (or the header alone, when
\* nothing more fits), and the rest goes to the start under a second header.
SplitCopy(s, data, size) ==
  LET acq == SplitAcquire(s)
      n == Len(data)
      rem == size - acq
      first == rem - RbHeaderSize
  IN IF rem < Align4(n) + RbHeaderSize
       THEN IF first > 0
         THEN s \o <<[pos |-> acq, cost |-> rem, data |-> SubSeq(data, 1, first),
                       kind |-> "head", st |-> "unread", next |-> 0],
                     [pos |-> 0, cost |-> Align4(n - first) + RbHeaderSize,
                       data |-> SubSeq(data, first + 1, n), kind |-> "tail", st |-> "unread",
                       next |-> SplitWrap(Align4(n - first) + RbHeaderSize, size)]>>
         ELSE s \o <<[pos |-> acq, cost |-> rem, data |-> <<>>, kind |-> "dummy",
                       st |-> "free", next |-> 0],
                     [pos |-> 0, cost |-> Align4(n) + RbHeaderSize, data |-> data,
                       kind |-> "whole", st |-> "unread",
                       next |-> SplitWrap(Align4(n) + RbHeaderSize, size)]>>
       ELSE Append(s, [pos |-> acq, cost |-> Align4(n) + RbHeaderSize, data |-> data,
                       kind |-> "whole", st |-> "unread",
                       next |-> SplitWrap(acq + Align4(n) + RbHeaderSize, size)])

\* the segments of s that are unread / held, by index
SplitUnread(s) == {i \in 1..Len(s) : s[i].st = "unread"}
SplitHeld(s) == {i \in 1..Len(s) : s[i].st = "held"}

\* the oldest unread segment
SplitFirst(s) == CHOOSE i \in SplitUnread(s) : \A j \in SplitUnread(s) : i <= j

\* SplitExternalStoragePolicy::create(buffer): xRingbufferCreateStatic with
\* REQUIRED_SIZE, in the control block of the wrapper.
SplitExternalStoragePolicy_create(w, buffer) ==
  /\ phase[w] = "alive" /\ Kind(w) = "splitbuf"
  /\ IF buffer = NULL
       THEN /\ UNCHANGED handle
            /\ KernelSame
            /\ last' = Call("create", w, buffer, 0)
       ELSE /\ kobj[Addr(w)].creates < MaxCreates
            /\ handle' = [handle EXCEPT ![w] = Addr(w)]
            /\ KernelCreate(Addr(w))
            /\ last' = Call("create", w, buffer, Bool(handle'[w] # NULL))
  /\ UNCHANGED <<phase, taskParams, waiting, nullCall, observed, isr, tmr, token>>
  /\ Recorded

\* Policy::send(item, item_size, 0) on a split ring buffer: xRingbufferSend.
SplitRingBuffer_send(w, tag, n) ==
  /\ phase[w] = "alive" /\ Kind(w) = "splitbuf"
  /\ IF isCreated(w) /\ SplitFits(store[handle[w]], n, SplitRequiredSize)
       THEN /\ store' = Post([store EXCEPT ![handle[w]] =
                                SplitCopy(@, Item(tag, n), SplitRequiredSize)], handle[w])
            /\ last' = Call("send", w, Item(tag, n), 1)
       ELSE /\ UNCHANGED store
            /\ last' = Call("send", w, Item(tag, n), 0)
  /\ UNCHANGED <<phase, handle, kobj, held, container, taskParams, waiting, nullCall, observed, isr, tmr, token>>
  /\ Recorded

\* SplitPolicy::receive(head, tail, head_item_size, tail_item_size, 0):
\* xRingbufferReceiveSplit.  ret is [ok, head, tail], with <<>> for a pointer
\* the call leaves null; both parts of a split item are handed out together.
SplitPolicy_receive(w) ==
  /\ phase[w] = "alive" /\ Kind(w) = "splitbuf"
  /\ IF isCreated(w) /\ SplitUnread(store[handle[w]]) # {}
       THEN LET s == store[handle[w]]
                i == SplitFirst(s)
                both == s[i].kind = "head"
            IN /\ store' = [store EXCEPT ![handle[w]] =
                     [j \in 1..Len(s) |->
                        IF j = i \/ (both /\ j = i + 1) THEN [s[j] EXCEPT !.st = "held"]
                        ELSE s[j]]]
               /\ last' = Call("receive", w, 0,
                     [ok |-> 1, head |-> s[i].data,
                      tail |-> IF both THEN s[i + 1].data ELSE <<>>])
       ELSE /\ UNCHANGED store
            /\ last' = Call("receive", w, 0, [ok |-> 0, head |-> <<>>, tail |-> <<>>])
  /\ UNCHANGED <<phase, handle, kobj, held, container, taskParams, waiting, nullCall, observed, isr, tmr, token>>
  /\ Recorded

\* Policy::returnItem(item) with the pointer to a part received and not yet
\* returned, the segment i: vRingbufferReturnItem.
SplitRingBuffer_returnItem(w, i) ==
  /\ phase[w] = "alive" /\ Kind(w) = "splitbuf"
  /\ isCreated(w)
  /\ i \in SplitHeld(store[handle[w]])
  /\ store' = [store EXCEPT ![handle[w]] = SplitCompact([@ EXCEPT ![i].st = "free"])]
  /\ last' = Call("returnItem", w, store[handle[w]][i].pos, 1)
  /\ UNCHANGED <<phase, handle, kobj, held, container, taskParams, waiting, nullCall, observed, isr, tmr, token>>
  /\ Recorded

\* -------------------------------------------------------------------- Lock
\* the most tokens the semaphore w holds: MaxCount for the counting
\* semaphore, 1 for a binary semaphore
LockMax(w) == IF w \in {"sem_count_st", "sem_count_dyn"} THEN MaxCount ELSE 1

\* variant: give adds a count whatever the semaphore holds
Lock_give_over(w) ==
  /\ phase[w] = "alive" /\ Kind(w) = "lock"
  /\ IF ~isCreated(w)
       THEN /\ UNCHANGED store
            /\ last' = Call("give", w, 0, 0)
       ELSE /\ store' = Post([store EXCEPT ![handle[w]] = Append(@, 1)], handle[w])
            /\ last' = Call("give", w, 0, 1)
  /\ UNCHANGED <<phase, handle, kobj, held, container, taskParams, waiting, nullCall, observed, isr, tmr, token>>
  /\ Recorded

\* Policy::give() with SemaphoreBinaryPolicy / SemaphoreCountingPolicy::giveImpl:
\* xSemaphoreGive on a semaphore, a queue of length LockMax with no data.
Lock_give(w) ==
  /\ phase[w] = "alive" /\ Kind(w) = "lock"
  /\ IF ~isCreated(w)
       THEN /\ UNCHANGED store
            /\ last' = Call("give", w, 0, 0)
       ELSE IF Len(store[handle[w]]) < LockMax(w)
         THEN /\ store' = Post([store EXCEPT ![handle[w]] = Append(@, 1)], handle[w])
              /\ last' = Call("give", w, 0, 1)
         ELSE /\ UNCHANGED store
              /\ last' = Call("give", w, 0, 0)
  /\ UNCHANGED <<phase, handle, kobj, held, container, taskParams, waiting, nullCall, observed, isr, tmr, token>>
  /\ Recorded

\* variant: take succeeds without taking a count
Lock_take_keep(w) ==
  /\ phase[w] = "alive" /\ Kind(w) = "lock"
  /\ last' = Call("take", w, 0, Bool(isCreated(w) /\ store[handle[w]] # <<>>))
  /\ UNCHANGED <<phase, handle, kobj, store, held, container, taskParams, waiting, nullCall, observed, isr, tmr, token>>
  /\ Recorded

\* Policy::take(0) with SemaphoreBinaryPolicy / SemaphoreCountingPolicy::takeImpl:
\* xSemaphoreTake.
Lock_take(w) ==
  /\ phase[w] = "alive" /\ Kind(w) = "lock"
  /\ IF ~isCreated(w)
       THEN /\ UNCHANGED store
            /\ last' = Call("take", w, 0, 0)
       ELSE IF store[handle[w]] # <<>>
         THEN /\ store' = [store EXCEPT ![handle[w]] = Tail(@)]
              /\ last' = Call("take", w, 0, 1)
         ELSE /\ UNCHANGED store
              /\ last' = Call("take", w, 0, 0)
  /\ UNCHANGED <<phase, handle, kobj, held, container, taskParams, waiting, nullCall, observed, isr, tmr>>
  /\ Taken
  /\ Recorded

\* SemaphoreCountingPolicy::getCount(), as a value: uxSemaphoreGetCount
getCount(w) == IF ~isCreated(w) THEN 0 ELSE Len(store[handle[w]])

\* SemaphoreCountingPolicy::getCount()
Lock_getCount(w) ==
  /\ phase[w] = "alive" /\ Kind(w) = "lock"
  /\ last' = Call("getCount", w, 0, getCount(w))
  /\ UNCHANGED <<phase, handle, kobj, store, held, container, taskParams, waiting, nullCall, observed, isr, tmr, token>>
  /\ Recorded

\* ---------------------------------------------------------- recursive mutex
\* The tasks that use a mutex.  The kernel object of a recursive mutex keeps
\* its holder and the holder's recursive call count: store holds one entry,
\* the holder, per take the holder has not yet given back (<<>>: free).
TaskIds == {1, 2}

\* variant: the first give of the holder releases the mutex
MutexRecursive_give_release(w, t) ==
  /\ phase[w] = "alive" /\ Kind(w) = "lock"
  /\ IF isCreated(w) /\ store[handle[w]] # <<>> /\ Head(store[handle[w]]) = t
       THEN /\ store' = [store EXCEPT ![handle[w]] = <<>>]
            /\ last' = Call("give", w, t, 1)
       ELSE /\ UNCHANGED store
            /\ last' = Call("give", w, t, 0)
  /\ UNCHANGED <<phase, handle, kobj, held, container, taskParams, waiting, nullCall, observed, isr, tmr, token>>
  /\ Recorded

\* Policy::take(0) with MutexRecursivePolicy::takeImpl, called by task t:
\* xSemaphoreTakeRecursive.  The holder's count goes up; any other task gets
\* the mutex only when it is free.
MutexRecursive_take(w, t) ==
  /\ phase[w] = "alive" /\ Kind(w) = "lock"
  /\ IF ~isCreated(w)
       THEN /\ UNCHANGED store
            /\ last' = Call("take", w, t, 0)
       ELSE IF store[handle[w]] = <<>> \/ Head(store[handle[w]]) = t
         THEN /\ store' = [store EXCEPT ![handle[w]] = Append(@, t)]
              /\ last' = Call("take", w, t, 1)
         ELSE /\ UNCHANGED store
              /\ last' = Call("take", w, t, 0)
  /\ UNCHANGED <<phase, handle, kobj, held, container, taskParams, waiting, nullCall, observed, isr, tmr, token>>
  /\ Recorded

\* Policy::give() with MutexRecursivePolicy::giveImpl, called by task t:
\* xSemaphoreGiveRecursive.  Fails for a task that is not the holder; the
\* mutex is released when the holder's count reaches zero.
MutexRecursive_give(w, t) ==
  /\ phase[w] = "alive" /\ Kind(w) = "lock"
  /\ IF ~isCreated(w)
       THEN /\ UNCHANGED store
            /\ last' = Call("give", w, t, 0)
       ELSE IF store[handle[w]] # <<>> /\ Head(store[handle[w]]) = t
         THEN /\ store' = [store EXCEPT ![handle[w]] = Tail(@)]
              /\ last' = Call("give", w, t, 1)
         ELSE /\ UNCHANGED store
              /\ last' = Call("give", w, t, 0)
  /\ UNCHANGED <<phase, handle, kobj, held, container, taskParams, waiting, nullCall, observed, isr, tmr, token>>
  /\ Recorded

\* -------------------------------------------------------------------- mutex
\* The kernel object of a mutex is created available and keeps its holder:
\* store is <<>> while the mutex is free and <<t>> while task t holds it.
\* Task Waiter is the one that calls take with the default wait.
Waiter == 2

\* variant: a take finds the mutex available whoever holds it
Mutex_take_shared(w, t, ticks) ==
  /\ phase[w] = "alive" /\ Kind(w) = "lock"
  /\ waiting = NoWait
  /\ IF ~isCreated(w)
       THEN /\ UNCHANGED store
            /\ last' = Call("take", w, t, 0)
       ELSE /\ store' = [store EXCEPT ![handle[w]] = Append(@, t)]
            /\ last' = Call("take", w, t, 1)
  /\ UNCHANGED <<phase, handle, kobj, held, container, taskParams, waiting, nullCall, observed, isr, tmr, token>>
  /\ Recorded

\* Policy::take(ticks_to_wait) with MutexPolicy::takeImpl, called by task t:
\* xSemaphoreTake.  The caller gets the mutex when it is free; when it is
\* held (by any task, the caller included) a zero wait fails and the default
\* wait blocks the caller.
Mutex_take(w, t, ticks) ==
  /\ phase[w] = "alive" /\ Kind(w) = "lock"
  /\ waiting = NoWait
  /\ IF ~isCreated(w)
       THEN /\ UNCHANGED <<store, waiting>>
            /\ last' = Call("take", w, t, 0)
       ELSE IF store[handle[w]] = <<>>
         THEN /\ store' = [store EXCEPT ![handle[w]] = <<t>>]
              /\ UNCHANGED waiting
              /\ last' = Call("take", w, t, 1)
         ELSE IF ticks = 0
           THEN /\ UNCHANGED <<store, waiting>>
                /\ last' = Call("take", w, t, 0)
           ELSE /\ UNCHANGED store
                /\ waiting' = [set |-> w, ticks |-> ticks, aborted |-> FALSE]
                /\ last' = Call("take_blocked", w, t, 0)
  /\ UNCHANGED <<phase, handle, kobj, held, container, taskParams, nullCall, observed, isr, tmr, token>>
  /\ Recorded

\* The task blocked in xSemaphoreTake gets the mutex once it is free.
Mutex_resume ==
  /\ waiting # NoWait /\ Kind(waiting.set) = "lock"
  /\ store[handle[waiting.set]] = <<>>
  /\ store' = [store EXCEPT ![handle[waiting.set]] = <<Waiter>>]
  /\ waiting' = NoWait
  /\ last' = Call("take", waiting.set, Waiter, 1)
  /\ UNCHANGED <<phase, handle, kobj, held, container, taskParams, nullCall, observed, isr, tmr, token>>
  /\ Recorded

\* Policy::give() with MutexPolicy::giveImpl, called by task t: xSemaphoreGive.
\* A free mutex is a full queue: the give fails.  A held mutex is released;
\* xQueueGenericSend does not compare the caller with the holder
\* (xTaskPriorityDisinherit asserts that they are the same: with the kernel's
\* assertions compiled in the program stops there, without them the give
\* of another task releases the holder's mutex and returns pdTRUE).
Mutex_give(w, t) ==
  /\ phase[w] = "alive" /\ Kind(w) = "lock"
  /\ ~(waiting # NoWait /\ t = Waiter)
  /\ IF isCreated(w) /\ store[handle[w]] # <<>>
       THEN /\ store' = [store EXCEPT ![handle[w]] = <<>>]
            /\ last' = Call("give", w, t, 1)
       ELSE /\ UNCHANGED store
            /\ last' = Call("give", w, t, 0)
  /\ UNCHANGED <<phase, handle, kobj, held, container, taskParams, waiting, nullCall, observed, isr, tmr, token>>
  /\ Recorded

\* ---------------------------------------------------------------- QueueSet
\* xQueueAddToSet / xRingbufferAddToQueueSetRead: refused when the member is
\* already in a queue set or holds items.
AddToSet(a, set) == container[a] = NULL /\ store[a] = <<>>

\* variant: a member of the set is removed whatever it holds
RemoveFromSet_any(a, set) == container[a] = set

\* xQueueRemoveFromSet / xRingbufferRemoveFromQueueSetRead: refused when the
\* member is not in this set or holds items.
RemoveFromSet(a, set) == container[a] = set /\ store[a] = <<>>

\* variant: the member is not checked for being created
QueueSet_add_unchecked(s, m) ==
  /\ phase[s] = "alive" /\ Kind(s) = "set"
  /\ phase[m] = "alive" /\ m \in Members
  /\ IF ~isCreated(s)
       THEN /\ UNCHANGED container
            /\ last' = Call("set_add", s, Addr(m), 0)
       ELSE IF AddToSet(Addr(m), handle[s])
         THEN /\ container' = [container EXCEPT ![Addr(m)] = handle[s]]
              /\ last' = Call("set_add", s, Addr(m), 1)
         ELSE /\ UNCHANGED container
              /\ last' = Call("set_add", s, Addr(m), 0)
  /\ UNCHANGED <<phase, handle, kobj, store, held, taskParams, waiting, nullCall, observed, isr, tmr, token>>
  /\ Recorded

\* variant: a member that is in a queue set already is moved to the set
QueueSet_add_move(s, m) ==
  /\ phase[s] = "alive" /\ Kind(s) = "set"
  /\ phase[m] = "alive" /\ m \in Members
  /\ IF ~isCreated(s) \/ ~isCreated(m)
       THEN /\ UNCHANGED container
            /\ last' = Call("set_add", s, Addr(m), 0)
       ELSE IF store[handle[m]] = <<>>
         THEN /\ container' = [container EXCEPT ![handle[m]] = handle[s]]
              /\ last' = Call("set_add", s, Addr(m), 1)
         ELSE /\ UNCHANGED container
              /\ last' = Call("set_add", s, Addr(m), 0)
  /\ UNCHANGED <<phase, handle, kobj, store, held, taskParams, waiting, nullCall, observed, isr, tmr, token>>
  /\ Recorded

\* QueueSet::add(lock), add(queue), add(ring_buffer).
QueueSet_add(s, m) ==
  /\ phase[s] = "alive" /\ Kind(s) = "set"
  /\ phase[m] = "alive" /\ m \in Members
  /\ IF ~isCreated(s) \/ ~isCreated(m)
       THEN /\ UNCHANGED container
            /\ last' = Call("set_add", s, Addr(m), 0)
       ELSE IF AddToSet(handle[m], handle[s])
         THEN /\ container' = [container EXCEPT ![handle[m]] = handle[s]]
              /\ last' = Call("set_add", s, Addr(m), 1)
         ELSE /\ UNCHANGED container
              /\ last' = Call("set_add", s, Addr(m), 0)
  /\ UNCHANGED <<phase, handle, kobj, store, held, taskParams, waiting, nullCall, observed, isr, tmr, token>>
  /\ Recorded

\* QueueSet::remove(lock), remove(queue), remove(ring_buffer).
QueueSet_remove(s, m) ==
  /\ phase[s] = "alive" /\ Kind(s) = "set"
  /\ phase[m] = "alive" /\ m \in Members
  /\ IF ~isCreated(s) \/ ~isCreated(m)
       THEN /\ UNCHANGED container
            /\ last' = Call("set_remove", s, Addr(m), 0)
       ELSE IF RemoveFromSet(handle[m], handle[s])
         THEN /\ container' = [container EXCEPT ![handle[m]] = NULL]
              /\ last' = Call("set_remove", s, Addr(m), 1)
         ELSE /\ UNCHANGED container
              /\ last' = Call("set_remove", s, Addr(m), 0)
  /\ UNCHANGED <<phase, handle, kobj, store, held, taskParams, waiting, nullCall, observed, isr, tmr, token>>
  /\ Recorded

\* variant: with no event the caller blocks whatever ticks_to_wait is
QueueSet_select_block(s, ticks) ==
  /\ phase[s] = "alive" /\ Kind(s) = "set"
  /\ waiting = NoWait
  /\ IF ~isCreated(s)
       THEN /\ UNCHANGED <<store, waiting>>
            /\ last' = Call("select", s, 0, NULL)
       ELSE IF store[handle[s]] # <<>>
         THEN /\ store' = [store EXCEPT ![handle[s]] = Tail(@)]
              /\ UNCHANGED waiting
              /\ last' = Call("select", s, 0, Head(store[handle[s]]))
         ELSE /\ UNCHANGED store
              /\ waiting' = [set |-> s, ticks |-> ticks, aborted |-> FALSE]
              /\ last' = Call("select_blocked", s, 0, NULL)
  /\ UNCHANGED <<phase, handle, kobj, held, container, taskParams, nullCall, observed, isr, tmr, token>>
  /\ Recorded

\* QueueSet::select(ticks_to_wait): xQueueSelectFromSet receives the oldest
\* event of the set.  With no event and ticks_to_wait > 0 the caller blocks.
QueueSet_select(s, ticks) ==
  /\ phase[s] = "alive" /\ Kind(s) = "set"
  /\ waiting = NoWait
  /\ IF ~isCreated(s)
       THEN /\ UNCHANGED <<store, waiting>>
            /\ last' = Call("select", s, 0, NULL)
       ELSE IF store[handle[s]] # <<>>
         THEN /\ store' = [store EXCEPT ![handle[s]] = Tail(@)]
              /\ UNCHANGED waiting
              /\ last' = Call("select", s, 0, Head(store[handle[s]]))
         ELSE IF ticks = 0
           THEN /\ UNCHANGED <<store, waiting>>
                /\ last' = Call("select", s, 0, NULL)
           ELSE /\ UNCHANGED store
                /\ waiting' = [set |-> s, ticks |-> ticks, aborted |-> FALSE]
                /\ last' = Call("select_blocked", s, 0, NULL)
  /\ UNCHANGED <<phase, handle, kobj, held, container, taskParams, nullCall, observed, isr, tmr>>
  /\ Selected(last'.ret)
  /\ Recorded

\* The task blocked in select is resumed by an event of the set.
SelectWake ==
  /\ waiting # NoWait /\ Kind(waiting.set) = "set"
  /\ store[handle[waiting.set]] # <<>>
  /\ store' = [store EXCEPT ![handle[waiting.set]] = Tail(@)]
  /\ waiting' = NoWait
  /\ last' = Call("select", waiting.set, 0, Head(store[handle[waiting.set]]))
  /\ UNCHANGED <<phase, handle, kobj, held, container, taskParams, nullCall, observed, isr, tmr>>
  /\ Selected(last'.ret)
  /\ Recorded

\* variant: a wait of portMAX_DELAY ticks runs out like any other
Tick_forever ==
  /\ waiting # NoWait
  /\ waiting.ticks > 0
  /\ waiting' = [waiting EXCEPT !.ticks = @ - 1]
  /\ last' = NoCall
  /\ UNCHANGED <<phase, handle, kobj, store, held, container, taskParams, nullCall, observed, isr, tmr, token>>
  /\ Recorded

\* A tick passes while the task is blocked in select.
Tick ==
  /\ waiting # NoWait
  /\ waiting.ticks > 0 /\ waiting.ticks # portMAX_DELAY
  /\ waiting' = [waiting EXCEPT !.ticks = @ - 1]
  /\ last' = NoCall
  /\ UNCHANGED <<phase, handle, kobj, store, held, container, taskParams, nullCall, observed, isr, tmr, token>>
  /\ Recorded

\* The wait of the task blocked in select has elapsed with no event.
SelectTimeout ==
  /\ waiting # NoWait
  /\ waiting.ticks = 0
  /\ store[handle[waiting.set]] = <<>>
  /\ waiting' = NoWait
  /\ last' = Call("select", waiting.set, 0, NULL)
  /\ UNCHANGED <<phase, handle, kobj, store, held, container, taskParams, nullCall, observed, isr, tmr>>
  /\ Selected(last'.ret)
  /\ Recorded

\* Queue::pop(var) with the default ticks_to_wait, portMAX_DELAY: xQueueReceive
\* returns the oldest item, or blocks the caller while the queue is empty.
Queue_pop_wait(w) ==
  /\ phase[w] = "alive" /\ Kind(w) = "queue"
  /\ waiting = NoWait
  /\ IF ~isCreated(w)
       THEN /\ UNCHANGED <<store, waiting>>
            /\ last' = Call("pop", w, 0, 0)
       ELSE IF store[handle[w]] # <<>>
         THEN /\ store' = [store EXCEPT ![handle[w]] = Tail(@)]
              /\ UNCHANGED waiting
              /\ last' = Call("pop", w, 0, Head(store[handle[w]]))
         ELSE /\ UNCHANGED store
              /\ waiting' = [set |-> w, ticks |-> portMAX_DELAY, aborted |-> FALSE]
              /\ last' = Call("pop_blocked", w, 0, 0)
  /\ UNCHANGED <<phase, handle, kobj, held, container, taskParams, nullCall, observed, isr, tmr>>
  /\ Taken
  /\ Recorded

\* Policy::take() with the default ticks_to_wait, portMAX_DELAY: xSemaphoreTake
\* takes a count, or blocks the caller while there is none.
Lock_take_wait(w) ==
  /\ phase[w] = "alive" /\ Kind(w) = "lock"
  /\ waiting = NoWait
  /\ IF ~isCreated(w)
       THEN /\ UNCHANGED <<store, waiting>>
            /\ last' = Call("take", w, 0, 0)
       ELSE IF store[handle[w]] # <<>>
         THEN /\ store' = [store EXCEPT ![handle[w]] = Tail(@)]
              /\ UNCHANGED waiting
              /\ last' = Call("take", w, 0, 1)
         ELSE /\ UNCHANGED store
              /\ waiting' = [set |-> w, ticks |-> portMAX_DELAY, aborted |-> FALSE]
              /\ last' = Call("take_blocked", w, 0, 0)
  /\ UNCHANGED <<phase, handle, kobj, held, container, taskParams, nullCall, observed, isr, tmr>>
  /\ Taken
  /\ Recorded

\* The task blocked in xQueueReceive / xSemaphoreTake is resumed by an item of
\* the queue / a count of the lock, which it takes.
Resume ==
  /\ waiting # NoWait /\ Kind(waiting.set) \in {"queue", "lock"}
  /\ store[handle[waiting.set]] # <<>>
  /\ store' = [store EXCEPT ![handle[waiting.set]] = Tail(@)]
  /\ waiting' = NoWait
  /\ last' = Call(IF Kind(waiting.set) = "queue" THEN "pop" ELSE "take", waiting.set, 0,
                  Head(store[handle[waiting.set]]))
  /\ UNCHANGED <<phase, handle, kobj, held, container, taskParams, nullCall, observed, isr, tmr>>
  /\ Taken
  /\ Recorded

\* QueueSet::selectFromISR(): xQueueSelectFromSetFromISR, never blocks.
QueueSet_selectFromISR(s) ==
  /\ phase[s] = "alive" /\ Kind(s) = "set"
  /\ IF isCreated(s) /\ store[handle[s]] # <<>>
       THEN /\ store' = [store EXCEPT ![handle[s]] = Tail(@)]
            /\ last' = Call("selectFromISR", s, 0, Head(store[handle[s]]))
       ELSE /\ UNCHANGED store
            /\ last' = Call("selectFromISR", s, 0, NULL)
  /\ UNCHANGED <<phase, handle, kobj, held, container, taskParams, waiting, nullCall, observed, isr, tmr>>
  /\ Selected(last'.ret)
  /\ Recorded

\* -------------------------------------------------------------------- Task
\* Task::getState(): eTaskGetState of the consumer task, whose function calls
\* select.  The task is Blocked while its select waits with ticks left, no
\* event in the set and the delay not aborted.
Blocked ==
  /\ waiting # NoWait
  /\ waiting.ticks > 0
  /\ store[handle[waiting.set]] = <<>>

getState(w) ==
  IF ~isCreated(w) THEN "eInvalid" ELSE IF Blocked THEN "eBlocked" ELSE "eReady"

\* variant: abortDelay reports success whatever the state of the task
Task_abortDelay_always(w) ==
  /\ phase[w] = "alive" /\ Kind(w) = "task"
  /\ IF isCreated(w) /\ Blocked
       THEN waiting' = [waiting EXCEPT !.ticks = 0, !.aborted = TRUE]
       ELSE UNCHANGED waiting
  /\ last' = Call("abortDelay", w, 0, Bool(isCreated(w)))
  /\ UNCHANGED <<phase, handle, kobj, store, held, container, taskParams, nullCall, observed, isr, tmr, token>>
  /\ Recorded

\* Task::abortDelay(): xTaskAbortDelay moves a Blocked task to the ready list
\* as if its wait had timed out, and returns pdFAIL for a task that is not
\* Blocked.
Task_abortDelay(w) ==
  /\ phase[w] = "alive" /\ Kind(w) = "task"
  /\ IF isCreated(w) /\ Blocked
       THEN /\ waiting' = [waiting EXCEPT !.ticks = 0, !.aborted = TRUE]
            /\ last' = Call("abortDelay", w, 0, 1)
       ELSE /\ UNCHANGED waiting
            /\ last' = Call("abortDelay", w, 0, 0)
  /\ UNCHANGED <<phase, handle, kobj, store, held, container, taskParams, nullCall, observed, isr, tmr, token>>
  /\ Recorded

\* ---------------------------------------------------------- token equality
\* operator==(QueueSetMemberHandle_t, ILock) and (.., IQueue): the token is
\* compared with the handle.
Handle_eq(t, w) == t = handle[w]

\* xRingbufferCanRead(handle, member): the member is this ring buffer
RingbufferCanRead(h, t) == t = h

\* variant: the token is taken to match whenever the ring buffer has an item
\* to read
RingBuffer_eq_readable(t, w) ==
  t # NULL /\ handle[w] # NULL /\ store[handle[w]] # <<>>

\* operator==(QueueSetMemberHandle_t, IRingBuffer)
RingBuffer_eq(t, w) == RingbufferCanRead(handle[w], t)

TokenEq(t, w) == IF Kind(w) = "ringbuf" THEN RingBuffer_eq(t, w) ELSE Handle_eq(t, w)

\* the members' handles and the null token
Tokens == {NULL} \cup {Addr(w) : w \in Members}

\* The caller tests a token against a member (token == member).  For a ring
\* buffer the handle is passed to xRingbufferCanRead unchecked.
TokenTest(t, w) ==
  /\ phase[w] = "alive" /\ w \in Members
  /\ nullCall' = (nullCall \/ (Kind(w) = "ringbuf" /\ handle[w] = NULL))
  /\ last' = Call("eq", w, t, Bool(TokenEq(t, w)))
  /\ UNCHANGED <<phase, handle, kobj, store, held, container, taskParams, waiting, observed, isr, tmr, token>>
  /\ Recorded

\* ----------------------------------------------------------- specifications
\* Spec: the life of a queue, a semaphore and the queue set they join.  The
\* objects are constructed, created, used by zero-wait calls and destroyed.
LifeW == {"q_ext", "sem", "q_set"}

Next ==
  \/ \E w \in LifeW, ok \in BOOLEAN : Construct(w, ok)
  \/ \E w \in LifeW, buffer \in {NULL, 1} : ExternalStoragePolicy_create(w, buffer)
  \/ \E w \in LifeW : Destructor(w)
  \/ \E w \in LifeW : Queue_add(w, 1)
  \/ \E w \in LifeW : Queue_pop(w)
  \/ \E w \in LifeW : Lock_give(w)
  \/ \E s \in LifeW, m \in LifeW : QueueSet_add(s, m)
  \/ \E s \in LifeW, m \in LifeW : QueueSet_remove(s, m)
  \/ \E s \in LifeW : QueueSet_selectFromISR(s)

Spec == Init /\ [][Next]_vars

\* SpecCreate: construction, create and destruction of the wrappers that are
\* created by an explicit create().
CreateW == {"q_ext", "rb_ext", "sb_ext", "timer", "task"}

NextCreate ==
  \/ \E w \in CreateW, ok \in BOOLEAN : Construct(w, ok)
  \/ \E w \in CreateW, buffer \in {NULL, 1} : ExternalStoragePolicy_create(w, buffer)
  \/ \E w \in CreateW, buffer \in {NULL, 1}, keep \in BOOLEAN :
       NoSplitExternalStoragePolicy_create(w, buffer, keep)
  \/ \E w \in CreateW, buffer \in {NULL, 1} : StreamBufferExternalStoragePolicy_create(w, buffer)
  \/ \E w \in CreateW, valid \in BOOLEAN, ok \in BOOLEAN : Timer_create(w, valid, ok)
  \/ \E w \in CreateW : Task_create(w)
  \/ \E w \in CreateW, valid \in BOOLEAN : Task_createWith(w, valid)
  \/ \E w \in CreateW : Destructor(w)

InitCreate == Constructed({}, {}, {"create"})

SpecCreate == InitCreate /\ [][NextCreate]_vars

\* SpecUncreated: a queue and a ring buffer not yet created, and a semaphore
\* and a queue set whose kernel objects the kernel refused: every operation
\* may be called on them.
UncreatedW == {"q_ext", "rb_ext", "sem", "q_set"}

InitUncreated == Constructed(UncreatedW, {"sem", "q_set"}, AllOps)

NextUncreated ==
  \/ \E w \in UncreatedW : ExternalStoragePolicy_create(w, 1)
  \/ \E w \in UncreatedW : NoSplitExternalStoragePolicy_create(w, 1, FALSE)
  \/ \E w \in UncreatedW, item \in 1..MaxVal : Queue_add(w, item)
  \/ \E w \in UncreatedW : Queue_pop(w)
  \/ \E w \in UncreatedW : Queue_getAvailableMessages(w)
  \/ \E w \in UncreatedW, item \in 1..MaxVal : RingBuffer_send(w, item)
  \/ \E w \in UncreatedW, item \in 1..MaxVal, r \in {0, 1} : RingBuffer_sendFromISR(w, item, r)
  \/ \E w \in UncreatedW : RingBuffer_receive(w)
  \/ \E w \in UncreatedW : RingBuffer_returnItem(w)
  \/ \E w \in UncreatedW : Lock_give(w)
  \/ \E w \in UncreatedW : Lock_take(w)
  \/ \E s \in UncreatedW, m \in UncreatedW : QueueSet_add(s, m)
  \/ \E s \in UncreatedW, m \in UncreatedW : QueueSet_remove(s, m)
  \/ \E s \in UncreatedW, ticks \in 0..MaxTicks : QueueSet_select(s, ticks)
  \/ \E s \in UncreatedW : QueueSet_selectFromISR(s)
  \/ \E w \in UncreatedW, t \in Tokens : TokenTest(t, w)

SpecUncreated == InitUncreated /\ [][NextUncreated]_vars

\* SpecSet: a queue, a ring buffer and a binary semaphore with two queue sets,
\* as in test_queuesets.cpp: the objects exist from the start (the dynamic ones
\* created if the heap had room), producers signal the members, a consumer
\* selects, with or without a wait, and services the members.
SetW == {"q_ext", "rb_ext", "sem", "q_set", "q_set2"}

InitSet ==
  Constructed({"q_ext", "rb_ext", "sem", "q_set"}, {},
              {"select", "select_blocked", "add", "send", "give"})

InitSet2 ==
  \E F \in SUBSET {"sem", "q_set2"} :
    Constructed(SetW, F, {"set_add", "set_remove", "select", "selectFromISR"})

\* SpecSet: one queue set, q_set, and a consumer that may block in select.
NextSet ==
  \/ \E w \in Members : ~isCreated(w) /\ ExternalStoragePolicy_create(w, 1)
  \/ \E w \in Members : ~isCreated(w) /\ NoSplitExternalStoragePolicy_create(w, 1, FALSE)
  \/ \E w \in Members : Queue_add(w, 1)
  \/ \E w \in Members : Queue_pop(w)
  \/ \E w \in Members : RingBuffer_send(w, 1)
  \/ \E w \in Members : RingBuffer_receive(w)
  \/ \E w \in Members : RingBuffer_returnItem(w)
  \/ \E w \in Members : Lock_give(w)
  \/ \E w \in Members : Lock_take(w)
  \/ \E m \in Members : QueueSet_add("q_set", m)
  \/ \E ticks \in {0, MaxTicks} : QueueSet_select("q_set", ticks)
  \/ SelectWake
  \/ Tick
  \/ SelectTimeout

SpecSet == InitSet /\ [][NextSet]_vars

\* SpecSet2: the two queue sets, zero-wait calls only.  The consumer takes
\* from a member that is in a set only when select has just returned its token.
Serviced(w) ==
  \/ container[handle[w]] = NULL
  \/ last.op \in {"select", "selectFromISR"} /\ last.ret # NULL /\ TokenEq(last.ret, w)

NextSet2 ==
  \/ \E w \in Members : ~isCreated(w) /\ ExternalStoragePolicy_create(w, 1)
  \/ \E w \in Members : ~isCreated(w) /\ NoSplitExternalStoragePolicy_create(w, 1, FALSE)
  \/ \E w \in Members : Queue_add(w, 1)
  \/ \E w \in Members : isCreated(w) /\ Serviced(w) /\ Queue_pop(w)
  \/ \E w \in Members : RingBuffer_send(w, 1)
  \/ \E w \in Members : isCreated(w) /\ Serviced(w) /\ RingBuffer_receive(w)
  \/ \E w \in Members : RingBuffer_returnItem(w)
  \/ \E w \in Members : Lock_give(w)
  \/ \E w \in Members : isCreated(w) /\ Serviced(w) /\ Lock_take(w)
  \/ \E s \in Sets, m \in Members : QueueSet_add(s, m)
  \/ \E s \in Sets, m \in Members : QueueSet_remove(s, m)
  \/ \E s \in Sets : QueueSet_select(s, 0)
  \/ \E s \in Sets : QueueSet_selectFromISR(s)

SpecSet2 == InitSet2 /\ [][NextSet2]_vars

\* SpecEvents: the threads of SpecSet2 with the signals of the members
\* recorded as well as the selects.
InitEvents ==
  \E F \in SUBSET {"sem", "q_set2"} :
    Constructed(SetW, F, {"add", "send", "give", "select", "selectFromISR",
                          "set_add", "set_remove"})

SpecEvents == InitEvents /\ [][NextSet2]_vars

\* SpecService: the members of q_set signalled by producer tasks and interrupt
\* handlers while one consumer task loops: token = q_set.select(..), then one
\* pop / take / receive on the member the token matches.
ServiceW == {"q_ext", "rb_ext", "sem", "q_set"}

InitService == Constructed(ServiceW, {}, {"token", "select", "pop", "take", "receive"})

NextService ==
  \/ \E w \in Members : ~isCreated(w) /\ ExternalStoragePolicy_create(w, 1)
  \/ \E w \in Members : ~isCreated(w) /\ NoSplitExternalStoragePolicy_create(w, 1, FALSE)
  \/ \E m \in Members : QueueSet_add("q_set", m)
  \/ \E w \in Members : Queue_add(w, 1)
  \/ \E w \in Members : Queue_addFromISR(w, 1)
  \/ \E w \in Members : RingBuffer_send(w, 1)
  \/ \E w \in Members : isCreated(w) /\ RingBuffer_sendFromISR(w, 1, 0)
  \/ \E w \in Members : Lock_give(w)
  \/ \E ticks \in {0, MaxTicks} : token = NULL /\ QueueSet_select("q_set", ticks)
  \/ SelectWake
  \/ Tick
  \/ SelectTimeout
  \/ \E w \in Members : token # NULL /\ TokenEq(token, w) /\ Queue_pop(w)
  \/ \E w \in Members : token # NULL /\ TokenEq(token, w) /\ Lock_take(w)
  \/ \E w \in Members : token # NULL /\ TokenEq(token, w) /\ RingBuffer_receive(w)
  \/ \E w \in Members : RingBuffer_returnItem(w)

SpecService == InitService /\ [][NextService]_vars

\* SpecBlock: one consumer task that calls pop on the queue, take on the
\* binary semaphore or select on q_set with the default wait (portMAX_DELAY),
\* or select with a timeout, while producer tasks and interrupt handlers add
\* and give.  SpecBlockFair: the scheduler runs a task that is ready.
BlockW == {"q_ext", "sem", "q_set"}

BlockOps == {"pop", "pop_blocked", "take", "take_blocked", "select", "select_blocked"}

InitBlock == Constructed(BlockW, {}, BlockOps)

NextBlock ==
  \/ \E w \in BlockW : ~isCreated(w) /\ ExternalStoragePolicy_create(w, 1)
  \/ \E m \in BlockW : QueueSet_add("q_set", m)
  \/ \E w \in BlockW : Queue_add(w, 1)
  \/ \E w \in BlockW : Queue_addFromISR(w, 1)
  \/ \E w \in BlockW : Lock_give(w)
  \/ \E w \in BlockW : Queue_pop_wait(w)
  \/ \E w \in BlockW : Lock_take_wait(w)
  \/ \E ticks \in {MaxTicks, portMAX_DELAY} : QueueSet_select("q_set", ticks)
  \/ Resume
  \/ SelectWake
  \/ Tick
  \/ SelectTimeout

SpecBlock == InitBlock /\ [][NextBlock]_vars

SpecBlockFair == SpecBlock /\ WF_vars(Resume) /\ WF_vars(SelectWake)

\* SpecLock: the two mutexes of test_locks.cpp (the dynamic one created if
\* the heap had room) taken and given by two tasks; task Waiter may take with
\* the default wait.
LockW == {"mutex_dyn", "mutex_st"}

InitLock ==
  \E F \in SUBSET {"mutex_dyn"} : Constructed(LockW, F, {"take", "take_blocked", "give"})

NextLock ==
  \/ \E w \in LockW, t \in TaskIds : ~(waiting # NoWait /\ t = Waiter) /\ Mutex_take(w, t, 0)
  \/ \E w \in LockW : Mutex_take(w, Waiter, portMAX_DELAY)
  \/ \E w \in LockW, t \in TaskIds : Mutex_give(w, t)
  \/ Mutex_resume

SpecLock == InitLock /\ [][NextLock]_vars

\* SpecSem: the binary semaphore and the two counting semaphores (max count
\* MaxCount, initial count 0), the dynamic ones created if the heap had room,
\* used by zero-wait give, take and getCount calls.
SemW == {"sem", "sem_count_dyn", "sem_count_st"}

InitSem ==
  \E F \in SUBSET {"sem", "sem_count_dyn"} : Constructed(SemW, F, {"give", "take", "getCount"})

NextSem ==
  \/ \E w \in SemW : Lock_give(w)
  \/ \E w \in SemW : Lock_take(w)
  \/ \E w \in SemW : Lock_getCount(w)

SpecSem == InitSem /\ [][NextSem]_vars

\* SpecReturn: the three no-split ring buffers of test_ringbuffers.cpp, of
\* RbLength bytes each, used by zero-wait send, receive and returnItem calls.
ReturnW == {"rb_nosp_dyn", "rb_nosp_st", "rb_ext"}

InitReturn == Constructed(ReturnW, {}, {"send", "receive", "returnItem"})

NextReturn ==
  \/ \E w \in ReturnW : ~isCreated(w) /\ NoSplitExternalStoragePolicy_create(w, 1, FALSE)
  \/ \E w \in ReturnW, item \in 1..MaxVal : RingBuffer_send(w, item)
  \/ \E w \in ReturnW : RingBuffer_receive(w)
  \/ \E w \in ReturnW : RingBuffer_returnItem(w)

SpecReturn == InitReturn /\ [][NextReturn]_vars

\* SpecQueue: the external-storage queue, of length QLen, and the static
\* queue of length 1, used by zero-wait calls from a single task.
QueueW == {"q_ext", "q_overwrite"}

QueueOps == {"add", "push", "pop", "peek", "overwrite", "reset"}

InitQueue == Constructed(QueueW, {}, QueueOps)

NextQueue ==
  \/ \E w \in QueueW : ~isCreated(w) /\ ExternalStoragePolicy_create(w, 1)
  \/ \E w \in QueueW, item \in 1..MaxVal : Queue_add(w, item)
  \/ \E w \in QueueW, item \in 1..MaxVal : Queue_push(w, item)
  \/ \E w \in QueueW : Queue_pop(w)
  \/ \E w \in QueueW : Queue_peek(w)
  \/ \E w \in QueueW, item \in 1..MaxVal : Queue_overwrite(w, item)
  \/ \E w \in QueueW, r \in {0, 1} : Queue_reset(w, r)

SpecQueue == InitQueue /\ [][NextQueue]_vars

\* SpecFifo: one queue of length QLen, of any of the three storage policies,
\* used by zero-wait add, push and pop calls from a single task; the calls
\* are kept in hist.  A scenario makes at most HistMax calls: enough to fill
\* the queue and drain it again.
FifoW == {"q_dyn", "q_st", "q_ext"}

FifoOps == {"history", "add", "push", "pop"}

HistMax == 2 * QLen

\* the calls of hist, without the steps whose operation is not observed
Calls == SelectSeq(hist, LAMBDA c : c.op # "none")

InitFifo ==
  \E w \in FifoW, ok \in BOOLEAN : Constructed({w}, IF ok THEN {} ELSE {w}, FifoOps)

NextFifo ==
  \/ \E w \in FifoW :
       Storage(w) = "external" /\ ~isCreated(w) /\ ExternalStoragePolicy_create(w, 1)
  \/ \E w \in FifoW, item \in 1..MaxVal : Len(Calls) < HistMax /\ Queue_add(w, item)
  \/ \E w \in FifoW, item \in 1..MaxVal : Len(Calls) < HistMax /\ Queue_push(w, item)
  \/ \E w \in FifoW : Len(Calls) < HistMax /\ Queue_pop(w)

SpecFifo == InitFifo /\ [][NextFifo]_vars

\* SpecCount: one counting semaphore of max count MaxCount and initial count
\* 0, dynamic or static, used by zero-wait give, take and getCount calls from
\* a single task; the calls are kept in hist.  A scenario makes at most
\* CountMax calls: MaxCount gives, a take and a give.
CountW == {"sem_count_dyn", "sem_count_st"}

CountOps == {"history", "give", "take", "getCount"}

CountMax == MaxCount + 2

InitCount ==
  \E w \in CountW, ok \in BOOLEAN : Constructed({w}, IF ok THEN {} ELSE {w}, CountOps)

NextCount ==
  \/ \E w \in CountW : Len(hist) < CountMax /\ Lock_give(w)
  \/ \E w \in CountW : Len(hist) < CountMax /\ Lock_take(w)
  \/ \E w \in CountW : Len(hist) < CountMax /\ Lock_getCount(w)

SpecCount == InitCount /\ [][NextCount]_vars

\* SpecMutex: one recursive mutex, dynamic or static, used by zero-wait take
\* and give calls of two tasks; the calls are kept in hist.  A scenario makes
\* at most MutexMax calls: MaxDepth nested takes and their gives by one task,
\* and a take and a give by the other.
MutexW == {"mutex_rec_dyn", "mutex_rec_st"}

MutexOps == {"history", "take", "give"}

MutexMax == 2 * MaxDepth + 2

InitMutex ==
  \E w \in MutexW, ok \in BOOLEAN : Constructed({w}, IF ok THEN {} ELSE {w}, MutexOps)

NextMutex ==
  \/ \E w \in MutexW, t \in TaskIds : Len(hist) < MutexMax /\ MutexRecursive_take(w, t)
  \/ \E w \in MutexW, t \in TaskIds : Len(hist) < MutexMax /\ MutexRecursive_give(w, t)

SpecMutex == InitMutex /\ [][NextMutex]_vars

\* SpecSplit: one allow-split ring buffer of SplitLen bytes, of any of the
\* three storage policies, used by zero-wait send, receive and returnItem
\* calls from a single task; the calls are kept in hist.  The send number k
\* sends the bytes Item(k, n).
SplitW == {"rb_sp_dyn", "rb_sp_st", "rb_sp_ext"}

SplitOps == {"history", "send", "receive", "returnItem"}

\* the calls of test_rb_split_send_recv on one buffer, and the sizes sent
SplitScenario ==
  <<"send", "send", "receive", "receive", "returnItem", "returnItem", "send", "receive">>
SplitScenarioSizes == <<SmallSize, LargeSize, 0, 0, 0, 0, LargeSize, 0>>

\* a scenario makes as many calls as the test
SplitMax == Len(SplitScenario)

\* the number of the next send
NextTag == Len(SelectSeq(hist, LAMBDA c : c.op = "send")) + 1

InitSplit ==
  \E w \in SplitW, ok \in BOOLEAN : Constructed({w}, IF ok THEN {} ELSE {w}, SplitOps)

NextSplit ==
  \/ \E w \in SplitW :
       Storage(w) = "external" /\ ~isCreated(w) /\ SplitExternalStoragePolicy_create(w, 1)
  \/ \E w \in SplitW, n \in SplitSizes :
       Len(Calls) < SplitMax /\ SplitRingBuffer_send(w, NextTag, n)
  \/ \E w \in SplitW : Len(Calls) < SplitMax /\ SplitPolicy_receive(w)
  \/ \E w \in SplitW, i \in 1..SplitMax :
       Len(Calls) < SplitMax /\ SplitRingBuffer_returnItem(w, i)

SpecSplit == InitSplit /\ [][NextSplit]_vars

\* SpecSizing: one no-split ring buffer of uint32_t items, either the static
\* one declared with the size of one item or the external-storage one of
\* RbLength bytes, used by zero-wait calls from a single task; the calls are
\* kept in hist.
SizingW == {"rb_item_st", "rb_ext"}

SizingOps == {"history", "send", "receive", "returnItem"}

\* a scenario fills the buffer, drains it and makes two calls more
SizingMax == 2 * (RbRequiredSize \div RbItemCost) + 2

InitSizing == \E w \in SizingW : Constructed({w}, {}, SizingOps)

NextSizing ==
  \/ \E w \in SizingW :
       Storage(w) = "external" /\ ~isCreated(w) /\ NoSplitExternalStoragePolicy_create(w, 1, FALSE)
  \/ \E w \in SizingW, item \in 1..MaxVal : Len(Calls) < SizingMax /\ RingBuffer_send(w, item)
  \/ \E w \in SizingW : Len(Calls) < SizingMax /\ RingBuffer_receive(w)
  \/ \E w \in SizingW : Len(Calls) < SizingMax /\ RingBuffer_returnItem(w)

SpecSizing == InitSizing /\ [][NextSizing]_vars

\* SpecToken: the queue, the ring buffer and the semaphore in q_set, used by
\* zero-wait calls; the consumer tests the tokens it holds against the members.
TokenOps == {"select", "eq"}

InitToken == Constructed({"q_ext", "rb_ext", "sem", "q_set"}, {}, TokenOps)

NextToken ==
  \/ \E w \in Members : ~isCreated(w) /\ ExternalStoragePolicy_create(w, 1)
  \/ \E w \in Members : ~isCreated(w) /\ NoSplitExternalStoragePolicy_create(w, 1, FALSE)
  \/ \E w \in Members : Queue_add(w, 1)
  \/ \E w \in Members : Queue_pop(w)
  \/ \E w \in Members : RingBuffer_send(w, 1)
  \/ \E w \in Members : RingBuffer_receive(w)
  \/ \E w \in Members : RingBuffer_returnItem(w)
  \/ \E w \in Members : Lock_give(w)
  \/ \E w \in Members : Lock_take(w)
  \/ \E m \in Members : QueueSet_add("q_set", m)
  \/ QueueSet_select("q_set", 0)
  \/ \E t \in Tokens \ {NULL}, w \in Members : isCreated(w) /\ TokenTest(t, w)

SpecToken == InitToken /\ [][NextToken]_vars

\* SpecZeroWait: a queue, a binary semaphore and a no-split ring buffer used
\* by zero-wait calls from a single task.
ZeroW == {"q_ext", "sem", "rb_ext"}

ZeroOps == {"add", "push", "pop", "peek", "take", "send", "receive"}

InitZeroWait == \E F \in SUBSET {"sem"} : Constructed(ZeroW, F, ZeroOps)

NextZeroWait ==
  \/ \E w \in ZeroW : ~isCreated(w) /\ ExternalStoragePolicy_create(w, 1)
  \/ \E w \in ZeroW : ~isCreated(w) /\ NoSplitExternalStoragePolicy_create(w, 1, FALSE)
  \/ \E w \in ZeroW, item \in 1..MaxVal : Queue_add(w, item)
  \/ \E w \in ZeroW, item \in 1..MaxVal : Queue_push(w, item)
  \/ \E w \in ZeroW : Queue_pop(w)
  \/ \E w \in ZeroW : Queue_peek(w)
  \/ \E w \in ZeroW : Lock_give(w)
  \/ \E w \in ZeroW : Lock_take(w)
  \/ \E w \in ZeroW, item \in 1..MaxVal : RingBuffer_send(w, item)
  \/ \E w \in ZeroW : RingBuffer_receive(w)
  \/ \E w \in ZeroW : RingBuffer_returnItem(w)

SpecZeroWait == InitZeroWait /\ [][NextZeroWait]_vars

\* SpecIsr: the queue and the ring buffer in q_set, a consumer task that may
\* block in select, and interrupt handlers that send to the members, pop the
\* queue and select, interrupting a task of a lower or of a higher priority
\* than the consumer's.
IsrW == {"q_ext", "rb_ext", "q_set"}

IsrOps == {"addFromISR", "pushFromISR", "popFromISR", "sendFromISR", "selectFromISR",
           "select", "select_blocked"}

InitIsr == Constructed(IsrW, {}, IsrOps)

NextIsr ==
  \/ \E w \in IsrW : ~isCreated(w) /\ ExternalStoragePolicy_create(w, 1)
  \/ \E w \in IsrW : ~isCreated(w) /\ NoSplitExternalStoragePolicy_create(w, 1, FALSE)
  \/ \E m \in IsrW : QueueSet_add("q_set", m)
  \/ \E ticks \in {0, MaxTicks} : QueueSet_select("q_set", ticks)
  \/ SelectWake
  \/ Tick
  \/ SelectTimeout
  \/ \E higher \in BOOLEAN : Interrupt(higher)
  \/ \E w \in IsrW : Queue_addFromISR(w, 1)
  \/ \E w \in IsrW : Queue_pushFromISR(w, MaxVal)
  \/ \E w \in IsrW : Queue_popFromISR(w)
  \/ \E w \in IsrW : isCreated(w) /\ RingBuffer_sendFromISR(w, 1, 0)
  \/ \E w \in IsrW : RingBuffer_receive(w)
  \/ \E w \in IsrW : RingBuffer_returnItem(w)
  \/ QueueSet_selectFromISR("q_set")

SpecIsr == InitIsr /\ [][NextIsr]_vars

\* SpecBuffer: the three stream buffers of test_buffers.cpp, of BufferSize
\* bytes each, used with a zero wait, one buffer at a time as in
\* test_sb_send_receive: a buffer is sent to while the others are empty.
BufferW == {"sb_dyn", "sb_st", "sb_ext"}

BufferOps == {"sb_send", "sb_receive", "sb_reset"}

\* the bytes a send is given: the first n of tx_buffer
tx_buffer(n) == [i \in 1..n |-> i]

InitBuffer == Constructed(BufferW, {}, BufferOps)

InTurn(w) == \A v \in BufferW \ {w} : getAvailableBytes(v) = 0

NextBuffer ==
  \/ \E w \in BufferW : ~isCreated(w) /\ StreamBufferExternalStoragePolicy_create(w, 1)
  \/ \E w \in BufferW, n \in 1..(BufferSize + 1) :
       InTurn(w) /\ DataBuffer_send(w, tx_buffer(n))
  \/ \E w \in BufferW, n \in 1..(BufferSize + 1) : DataBuffer_receive(w, n)
  \/ \E w \in BufferW : DataBuffer_reset(w)

SpecBuffer == InitBuffer /\ [][NextBuffer]_vars

\* SpecEquiv: the no-split ring buffers of Length RbLength and the stream
\* buffers of BufferSize bytes, each in its dynamic, static and external
\* storage variant.  Every operation is applied to the three variants one
\* after the other, the same operation with the same argument.
EquivW == {"rb_nosp_dyn", "rb_nosp_st", "rb_ext", "sb_dyn", "sb_st", "sb_ext"}

EquivOps == {"send", "receive", "returnItem", "sb_send", "sb_receive", "sb_reset"}

\* the variant an operation is applied to before it is applied to w
Before(w) ==
  CASE w = "rb_nosp_st" -> "rb_nosp_dyn"
    [] w = "rb_ext" -> "rb_nosp_st"
    [] w = "sb_st" -> "sb_dyn"
    [] w = "sb_ext" -> "sb_st"
    [] OTHER -> "none"

InStep(w, op, arg) ==
  IF Storage(w) = "dynamic"
    THEN /\ \A v \in EquivW : isCreated(v)
         /\ last.w \notin {v \in EquivW : Storage(v) # "external"}
    ELSE last.w = Before(w) /\ last.op = op /\ last.arg = arg

InitEquiv == Constructed(EquivW, {}, EquivOps)

NextEquiv ==
  \/ \E w \in EquivW : ~isCreated(w) /\ NoSplitExternalStoragePolicy_create(w, 1, FALSE)
  \/ \E w \in EquivW : ~isCreated(w) /\ StreamBufferExternalStoragePolicy_create(w, 1)
  \/ \E w \in EquivW : InStep(w, "send", 1) /\ RingBuffer_send(w, 1)
  \/ \E w \in EquivW : InStep(w, "receive", 0) /\ RingBuffer_receive(w)
  \/ \E w \in EquivW : InStep(w, "returnItem", 0) /\ RingBuffer_returnItem(w)
  \/ \E w \in EquivW, n \in 1..(BufferSize + 1) :
       InStep(w, "sb_send", tx_buffer(n)) /\ DataBuffer_send(w, tx_buffer(n))
  \/ \E w \in EquivW, n \in 1..(BufferSize + 1) :
       InStep(w, "sb_receive", n) /\ DataBuffer_receive(w, n)
  \/ \E w \in EquivW : InStep(w, "sb_reset", 0) /\ DataBuffer_reset(w)

SpecEquiv == InitEquiv /\ [][NextEquiv]_vars

\* SpecAbort: the Task whose function selects from q_set, the queue in the
\* set, a producer that adds to the queue, and a controller that calls
\* abortDelay on the Task.
AbortW == {"task", "q_ext", "q_set"}

AbortOps == {"abortDelay", "select", "select_blocked", "add"}

InitAbort == Constructed(AbortW, {}, AbortOps)

NextAbort ==
  \/ \E w \in AbortW : ~isCreated(w) /\ ExternalStoragePolicy_create(w, 1)
  \/ \E valid \in BOOLEAN : Task_createWith("task", valid)
  \/ QueueSet_add("q_set", "q_ext")
  \/ \E ticks \in {0, MaxTicks} : isCreated("task") /\ QueueSet_select("q_set", ticks)
  \/ SelectWake
  \/ Tick
  \/ SelectTimeout
  \/ \E w \in AbortW : Queue_add(w, 1)
  \/ \E w \in AbortW : waiting = NoWait /\ Queue_pop(w)
  \/ Task_abortDelay("task")

SpecAbort == InitAbort /\ [][NextAbort]_vars

\* SpecTimer: the one-shot timer of test_timers.cpp, a task that starts,
\* stops, resets and queries it, the kernel's tick and its timer service task.
TimerOps == {"start", "stop", "reset", "isActive", "timerCb", "timerTask"}

InitTimer == Constructed({"timer"}, {}, TimerOps)

NextTimer ==
  \/ \E ok \in BOOLEAN : ~isCreated("timer") /\ Timer_create("timer", TRUE, ok)
  \/ Timer_start("timer")
  \/ Timer_stop("timer")
  \/ Timer_reset("timer")
  \/ Timer_isActive("timer")
  \/ TimerTick
  \/ TimerTask

SpecTimer == InitTimer /\ [][NextTimer]_vars

\* ================================================================== claims
\* the three members are created and in the queue set s
AllIn(s) == \A x \in Members : isCreated(x) /\ container[handle[x]] = handle[s]

Signals == {"add", "send", "give"}

\* C1: in a queue set holding the queue, the ring buffer and the semaphore,
\* when a member M has just been signalled, M's event is the only one pending
\* and select returns, the token is not null, token == M holds and token == X
\* holds for neither of the other two members.
C1_SelectResolvesMember ==
  [][(/\ last.op \in Signals /\ last.ret = 1
      /\ AllIn("q_set")
      /\ Len(store[handle["q_set"]]) = 1
      /\ last'.op = "select")
     => (/\ last'.ret # NULL
         /\ TokenEq(last'.ret, last.w)
         /\ \A x \in Members \ {last.w} : ~TokenEq(last'.ret, x))]_vars

\* C1 witness: select has returned the ring buffer's token while the queue
\* still holds an item, all three members being in the set.
C1_Witness ==
  /\ last.op = "select" /\ last.ret = handle["rb_ext"] /\ last.ret # NULL
  /\ AllIn("q_set")
  /\ store[handle["q_ext"]] # <<>>
  /\ store[handle["q_set"]] = <<>>

\* C2: select on the queue set returns null exactly when the set holds no
\* event, and a waiting select returns null only once its ticks have elapsed;
\* a non-null token is the oldest event, the handle of a member of the set;
\* an event enters the set only by a successful signal of a member of the set;
\* with a zero timeout on a set with no event select returns null at once and
\* the caller is not left blocked.
C2_SelectNullIffNoEvent ==
  [][LET hs == handle["q_set"] IN
     /\ last'.op = "select" =>
          /\ last'.ret = (IF store[hs] = <<>> THEN NULL ELSE Head(store[hs]))
          /\ last'.ret # NULL =>
               \E m \in Members : /\ isCreated(m) /\ last'.ret = handle[m]
                                  /\ container[handle[m]] = hs
          /\ (waiting # NoWait /\ last'.ret = NULL) => waiting.ticks = 0
          /\ waiting' = NoWait
     /\ last'.op = "select_blocked" => (store[hs] = <<>> /\ waiting'.ticks > 0)
     /\ Len(store'[hs]) > Len(store[hs]) =>
          /\ last'.op \in Signals /\ last'.ret = 1
          /\ container[handle[last'.w]] = hs
          /\ store'[hs] = Append(store[hs], handle[last'.w])
     /\ (QueueSet_select("q_set", 0) /\ store[hs] = <<>>) =>
          (last'.op = "select" /\ last'.ret = NULL /\ waiting' = NoWait)]_vars

\* C2 witness: select has returned null on the set of the three members, none
\* of which has an event pending, and the caller is not blocked.
C2_Witness ==
  /\ last.op = "select" /\ last.ret = NULL
  /\ AllIn("q_set")
  /\ store[handle["q_set"]] = <<>>
  /\ waiting = NoWait

\* a call record of create with valid arguments: a non-null buffer, valid
\* timer arguments, valid task parameters (a task create that returned true
\* had valid parameters)
ValidCreate(c) ==
  /\ c.op = "create"
  /\ \/ Storage(c.w) = "external" /\ c.arg # NULL
     \/ Kind(c.w) = "timer" /\ c.arg >= 2
     \/ Kind(c.w) = "task" /\ c.arg \in {0, 2}

\* C3: when create is called twice in a row on a wrapper with the same valid
\* arguments and the first call returned true, the second call returns true
\* and makes no kernel call: no kernel object is created by it.
C3_CreateTwiceCreatesOnce ==
  [][(/\ ValidCreate(last) /\ last.ret = 1
      /\ ValidCreate(last') /\ last'.w = last.w /\ last'.arg = last.arg)
     => (last'.ret = 1 /\ kobj' = kobj)]_vars

\* C4: create on a wrapper that is already created leaves the handle, the
\* items held and the queue-set registrations as they were.
C4_CreateOnCreatedChangesNothing ==
  [][(last'.op = "create" /\ handle[last'.w] # NULL)
     => (/\ handle' = handle /\ store' = store
         /\ held' = held /\ container' = container)]_vars

\* C5: an operation of a wrapper that was never created returns 0 (false, 0,
\* nullptr), and no kernel primitive has been called with a null handle.
C5_UncreatedOpsFail ==
  /\ nullCall = FALSE
  /\ \A w \in UncreatedW :
       (/\ last.w = w /\ last.op \notin {"create", "construct", "destroy"}
        /\ kobj[Addr(w)].creates = 0)
       => last.ret = 0

Externals == {w \in W : Storage(w) = "external"}

\* C6: on an external-storage queue, ring buffer or stream buffer, create with
\* a null buffer returns false, makes no kernel call and leaves the handle as
\* it was, so an uncreated wrapper stays uncreated; create with a non-null
\* buffer, after that or at any time, returns true and leaves the wrapper created.
C6_NullBufferCreateFails ==
  [][\A w \in Externals :
       (last'.op = "create" /\ last'.w = w) =>
         IF last'.arg = NULL
           THEN /\ last'.ret = 0 /\ handle' = handle /\ kobj' = kobj
                /\ ~isCreated(w) => handle'[w] = NULL
           ELSE last'.ret = 1 /\ handle'[w] # NULL]_vars

\* C6 witness: create(nullptr) has returned false on the uncreated queue, for
\* which no kernel object was ever created.
C6_Witness ==
  /\ last = [op |-> "create", w |-> "q_ext", arg |-> NULL, ret |-> 0]
  /\ phase["q_ext"] = "alive" /\ handle["q_ext"] = NULL
  /\ kobj[Addr("q_ext")].creates = 0

\* C7: after every step, the handle of a living wrapper is unset or is the
\* handle of exactly one live kernel object that no other wrapper holds; a
\* handle becomes set only by a creation that succeeds; once set, it stays the
\* handle of the same kernel object as long as the wrapper lives.
C7_HandleOneLiveObject ==
  [][\A w \in W :
       /\ (phase'[w] = "alive" /\ handle'[w] # NULL) =>
            /\ kobj'[handle'[w]].live = 1
            /\ \A x \in W \ {w} : handle'[x] # handle'[w]
       /\ (handle[w] = NULL /\ handle'[w] # NULL) =>
            /\ last'.w = w
            /\ \/ last'.op = "construct"
               \/ last'.op = "create" /\ last'.ret = 1
       /\ (handle[w] # NULL /\ phase'[w] = "alive") =>
            /\ handle'[w] = handle[w]
            /\ kobj'[handle[w]].creates = kobj[handle[w]].creates]_vars

\* C8: once a wrapper is destroyed, no kernel object of it is left undeleted,
\* its kernel object was deleted once if it was ever created and not at all
\* otherwise; no kernel object is deleted twice.
C8_DestructorDeletesOnce ==
  /\ \A w \in W : phase[w] = "dead" =>
       /\ kobj[Addr(w)].live = 0
       /\ kobj[Addr(w)].deletes = Bool(kobj[Addr(w)].creates > 0)
  /\ \A a \in Addrs : kobj[a].live >= 0

\* C9: add and remove on a queue set return false and leave every
\* registration as it was when the set or the member is not created; select
\* and selectFromISR return null on a queue set that is not created.
C9_UncreatedSetOpsFail ==
  [][/\ \A s \in Sets, m \in Members :
          (/\ last'.op \in {"set_add", "set_remove"}
           /\ last'.w = s /\ last'.arg = Addr(m)
           /\ ~isCreated(s) \/ ~isCreated(m))
          => (last'.ret = 0 /\ container' = container)
     /\ \A s \in Sets :
          (last'.op \in {"select", "selectFromISR"} /\ last'.w = s /\ ~isCreated(s))
          => (last'.ret = NULL /\ store' = store)]_vars

\* C9 witness: add has returned false for the created semaphore on the second
\* queue set, which is not created.
C9_Witness ==
  /\ last = [op |-> "set_add", w |-> "q_set2", arg |-> Addr("sem"), ret |-> 0]
  /\ handle["q_set2"] = NULL /\ handle["sem"] # NULL
  /\ container[handle["sem"]] = NULL

\* the members registered in queue set s
Registered(s) ==
  {m \in Members : isCreated(s) /\ isCreated(m) /\ container[handle[m]] = handle[s]}

\* C10: no member is registered in two queue sets, and add of a member that
\* is registered already, in this set or in the other one, returns false and
\* leaves the registrations of both sets as they were.
C10_MemberInOneSet ==
  [][/\ \A s \in Sets : \A t \in Sets \ {s} : Registered(s)' \cap Registered(t)' = {}
     /\ \A s \in Sets, m \in Members :
          (/\ last'.op = "set_add" /\ last'.w = s /\ last'.arg = Addr(m)
           /\ \E t \in Sets : m \in Registered(t))
          => (/\ last'.ret = 0
              /\ \A t \in Sets : Registered(t)' = Registered(t))]_vars

\* C10 witness: add of the queue to the second queue set has returned false
\* while the queue is registered in the first set.
C10_Witness ==
  /\ last = [op |-> "set_add", w |-> "q_set2", arg |-> Addr("q_ext"), ret |-> 0]
  /\ "q_ext" \in Registered("q_set")
  /\ isCreated("q_set2")

\* C11: the destruction of a queue set leaves every member constructed and
\* created with the handle, the kernel object and the items it had, and the
\* members stay usable: a later successful add or give on a member does not
\* reach a queue set that has been deleted.
C11_SetDestroyKeepsMembers ==
  [][/\ (last'.op = "destroy" /\ last'.w \in Sets) =>
          \A m \in Members :
            /\ phase'[m] = phase[m] /\ handle'[m] = handle[m]
            /\ kobj'[Addr(m)] = kobj[Addr(m)] /\ store'[Addr(m)] = store[Addr(m)]
     /\ (last'.op \in Signals /\ last'.ret = 1) =>
          LET c == container[handle[last'.w]] IN c = NULL \/ kobj[c].live > 0]_vars

\* every handle registered in a live queue set is the handle of a member that
\* is constructed, created and not destroyed
RegisteredAlive ==
  \A s \in Sets :
    (phase[s] = "alive" /\ isCreated(s)) =>
      \A a \in Addrs :
        container[a] = handle[s] => \E m \in Members : phase[m] = "alive" /\ handle[m] = a

\* C12: at every point, every handle registered in a live queue set belongs
\* to a created member that has not been destroyed.
C12_NoDestroyWhileRegistered == RegisteredAlive

\* C12, amended: the destructor of a created member that is registered in a
\* live queue set deletes the kernel object and leaves the registration in
\* place, so that the set holds the handle of a deleted object; no other step
\* makes a live queue set hold a handle that is not that of a created, living
\* member.
C12_OnlyMemberDestroyBreaks ==
  [][LET destroyed ==
           /\ last'.op = "destroy" /\ last'.w \in Members
           /\ isCreated(last'.w)
           /\ \E s \in Sets : /\ phase[s] = "alive" /\ isCreated(s)
                              /\ container[handle[last'.w]] = handle[s]
     IN /\ destroyed => (container' = container /\ ~RegisteredAlive')
        /\ (RegisteredAlive /\ ~RegisteredAlive') => destroyed]_vars

\* C12 witness: the semaphore was destroyed while registered in the live
\* queue set, which still holds its handle.
C12_Witness ==
  /\ last.op = "destroy" /\ last.w = "sem"
  /\ phase["q_set"] = "alive" /\ isCreated("q_set")
  /\ container[Addr("sem")] = handle["q_set"]
  /\ kobj[Addr("sem")].live = 0

\* C13: after every add, push, pop, peek, overwrite and reset on a created
\* queue of length N, successful or not, getAvailableSpaces() +
\* getAvailableMessages() = N; a successful add or push raises the message
\* count by exactly 1, a successful pop lowers it by exactly 1, and a failed
\* add, push or pop leaves it as it was.
C13_SpacesPlusMessages ==
  [][\A w \in QueueW :
       (last'.op \in QueueOps /\ last'.w = w /\ isCreated(w)) =>
         /\ getAvailableSpaces(w)' + getAvailableMessages(w)' = QueueLength(w)
         /\ (last'.op \in {"add", "push"} /\ last'.ret = 1) =>
              getAvailableMessages(w)' = getAvailableMessages(w) + 1
         /\ (last'.op = "pop" /\ last'.ret # 0) =>
              getAvailableMessages(w)' = getAvailableMessages(w) - 1
         /\ (last'.op \in {"add", "push", "pop"} /\ last'.ret = 0) =>
              getAvailableMessages(w)' = getAvailableMessages(w)]_vars

\* C13 witness: a pop has succeeded on the external-storage queue, which held
\* QLen items and now holds one less.
C13_Witness ==
  /\ last.op = "pop" /\ last.w = "q_ext" /\ last.ret # 0
  /\ getAvailableMessages("q_ext") = QLen - 1
  /\ getAvailableSpaces("q_ext") = 1

\* C17: peek on a non-empty queue returns an item and leaves the queue as it
\* was (same items in the same order, same message count and spaces); a pop
\* that follows the peek returns the item peek returned; peek on an empty
\* queue returns false.
C17_PeekLeavesQueue ==
  [][/\ \A w \in QueueW :
          (last'.op = "peek" /\ last'.w = w /\ isCreated(w)) =>
            /\ store' = store
            /\ getAvailableMessages(w)' = getAvailableMessages(w)
            /\ getAvailableSpaces(w)' = getAvailableSpaces(w)
            /\ (last'.ret = 0) = isEmpty(w)
     /\ (/\ last.op = "peek" /\ last.ret # 0
         /\ last'.op = "pop" /\ last'.w = last.w)
        => last'.ret = last.ret]_vars

\* C17 witness: a pop has returned the second of the two items values that
\* differ, after a peek.
C17_Witness ==
  /\ last.op = "pop" /\ last.w = "q_ext" /\ last.ret = 2
  /\ store[handle["q_ext"]] = <<1>>

\* C18: on the created queue of length 1, overwrite(v) returns true whether
\* the queue is empty or full, and afterwards the queue holds one message
\* (getAvailableMessages() = 1, getAvailableSpaces() = 0) that a peek right
\* after the overwrite reads as v.
C18_OverwriteKeepsLast ==
  [][/\ (last'.op = "overwrite" /\ last'.w = "q_overwrite") =>
          /\ last'.ret = 1
          /\ getAvailableMessages("q_overwrite")' = 1
          /\ getAvailableSpaces("q_overwrite")' = 0
     /\ (/\ last.op = "overwrite" /\ last.w = "q_overwrite"
         /\ last'.op = "peek" /\ last'.w = "q_overwrite")
        => last'.ret = last.arg]_vars

\* C18 witness: overwrite(2) has returned true on the queue of length 1 that
\* was full: the queue holds the single value 2.
C18_Witness ==
  /\ last = [op |-> "overwrite", w |-> "q_overwrite", arg |-> 2, ret |-> 1]
  /\ store[handle["q_overwrite"]] = <<2>>

\* C19: reset on a created queue returns true and leaves it empty (isEmpty()
\* true, isFull() false, getAvailableSpaces() = N) however many items it
\* held; reset on a queue that is not created returns false.
C19_ResetEmptiesQueue ==
  [][\A w \in QueueW :
       (last'.op = "reset" /\ last'.w = w) =>
         IF isCreated(w)
           THEN /\ last'.ret = 1
                /\ isEmpty(w)' /\ ~isFull(w)'
                /\ getAvailableSpaces(w)' = QueueLength(w)
           ELSE last'.ret = 0]_vars

\* the queue w was created and empty when the first call of Calls was made
\* (an external-storage queue: its create came before every call)
FromEmpty(w) ==
  /\ phase[w] = "alive" /\ isCreated(w)
  /\ hist = Calls \/ hist = <<NoCall>> \o Calls

\* the calls i..j of Calls are all calls of op
AllOp(op, i, j) == \A n \in i..j : Calls[n].op = op

\* C14: for a created queue of length N, isFull() is true exactly when the
\* queue holds N items and isEmpty() exactly when it holds none; after N adds
\* to the empty queue isFull() is true and isEmpty() false, and after N pops
\* more isEmpty() is true and isFull() false.
C14_FullEmpty ==
  \A w \in FifoW : phase[w] = "alive" /\ isCreated(w) =>
    /\ isFull(w) <=> Len(store[handle[w]]) = QueueLength(w)
    /\ isEmpty(w) <=> Len(store[handle[w]]) = 0
    /\ FromEmpty(w) /\ Len(Calls) = QueueLength(w) /\ AllOp("add", 1, QueueLength(w))
         => isFull(w) /\ ~isEmpty(w)
    /\ FromEmpty(w) /\ Len(Calls) = 2 * QueueLength(w)
         /\ AllOp("add", 1, QueueLength(w))
         /\ AllOp("pop", QueueLength(w) + 1, 2 * QueueLength(w))
         => isEmpty(w) /\ ~isFull(w)

\* a queue has been filled by N adds and drained by N pops
C14_Witness ==
  \E w \in FifoW :
    /\ FromEmpty(w) /\ Len(Calls) = 2 * QueueLength(w)
    /\ AllOp("add", 1, QueueLength(w))
    /\ AllOp("pop", QueueLength(w) + 1, 2 * QueueLength(w))
    /\ isEmpty(w)

\* C15: after add(x1) ... add(xk), k <= N, on an empty queue of length N, the
\* pops that follow return x1, x2, ... in that order, whatever the storage
\* policy of the queue.
C15_AddPopFifo ==
  \A w \in FifoW : \A k \in 0..QueueLength(w) : \A n \in 0..k :
    FromEmpty(w) /\ Len(Calls) = k + n /\ AllOp("add", 1, k) /\ AllOp("pop", k + 1, k + n)
      => \A i \in 1..n : Calls[k + i].ret = Calls[i].arg

\* N different items were added and popped again
C15_Witness ==
  \E w \in FifoW :
    /\ FromEmpty(w) /\ Len(Calls) = 2 * QLen
    /\ AllOp("add", 1, QLen) /\ AllOp("pop", QLen + 1, 2 * QLen)
    /\ Calls[1].arg # Calls[2].arg
    /\ Calls[QLen + 1].ret # 0

\* Every successful pop of the calls h returns the most recently pushed item
\* not yet popped (the head of P) or, when there is none, the oldest added
\* item not yet popped (the head of A).
RECURSIVE PopsPushedFirst(_, _, _)
PopsPushedFirst(h, P, A) ==
  IF h = <<>> THEN TRUE
  ELSE LET c == Head(h) IN
    IF c.op = "add" /\ c.ret = 1 THEN PopsPushedFirst(Tail(h), P, Append(A, c.arg))
    ELSE IF c.op = "push" /\ c.ret = 1 THEN PopsPushedFirst(Tail(h), <<c.arg>> \o P, A)
    ELSE IF c.op = "pop" /\ c.ret # 0 THEN
      IF P # <<>> THEN c.ret = Head(P) /\ PopsPushedFirst(Tail(h), Tail(P), A)
      ELSE A # <<>> /\ c.ret = Head(A) /\ PopsPushedFirst(Tail(h), P, Tail(A))
    ELSE PopsPushedFirst(Tail(h), P, A)

\* C16: after push(x1) ... push(xk), k <= N, on an empty queue of length N,
\* the pops that follow return xk, ..., x1; and in any mix of add and push a
\* pop returns the most recently pushed item not yet popped before any added
\* item.
C16_PushPopLifo ==
  \A w \in FifoW : FromEmpty(w) =>
    /\ \A k \in 0..QueueLength(w) : \A n \in 0..k :
         Len(Calls) = k + n /\ AllOp("push", 1, k) /\ AllOp("pop", k + 1, k + n)
           => \A i \in 1..n : Calls[k + i].ret = Calls[k + 1 - i].arg
    /\ PopsPushedFirst(Calls, <<>>, <<>>)

\* an item was added, another one pushed after it, and the two pops that
\* followed returned the pushed item and then the added one
C16_Witness ==
  \E w \in FifoW :
    /\ FromEmpty(w) /\ Len(Calls) = 4
    /\ Calls[1].op = "add" /\ Calls[2].op = "push" /\ Calls[1].arg # Calls[2].arg
    /\ Calls[3].op = "pop" /\ Calls[3].ret = Calls[2].arg
    /\ Calls[4].op = "pop" /\ Calls[4].ret = Calls[1].arg

\* the successful calls of op among the first n calls of hist
Successful(op, n) == Cardinality({i \in 1..n : hist[i].op = op /\ hist[i].ret = 1})

\* the give and take calls of hist, in order
GiveTake == SelectSeq(hist, LAMBDA c : c.op \in {"give", "take"})

\* the first n calls of GiveTake are gives, followed by one take
GivesThenTake(n) ==
  /\ Len(GiveTake) >= n + 1
  /\ \A i \in 1..n : GiveTake[i].op = "give"
  /\ GiveTake[n + 1].op = "take"

\* C20: for a counting semaphore of max count M and initial count 0,
\* getCount() is the number of successful gives minus the number of successful
\* takes, in every state and in every getCount() call made; after M gives and
\* one take it is M - 1, and after one more give it is M.
C20_CountIsGivesMinusTakes ==
  \A w \in CountW : phase[w] = "alive" =>
    /\ getCount(w) = Successful("give", Len(hist)) - Successful("take", Len(hist))
    /\ \A i \in 1..Len(hist) : hist[i].op = "getCount" =>
         hist[i].ret = Successful("give", i) - Successful("take", i)
    /\ isCreated(w) /\ GivesThenTake(LockMax(w)) /\ Len(GiveTake) = LockMax(w) + 1
         => getCount(w) = LockMax(w) - 1
    /\ isCreated(w) /\ GivesThenTake(LockMax(w)) /\ Len(GiveTake) = LockMax(w) + 2
         /\ GiveTake[LockMax(w) + 2].op = "give"
         => getCount(w) = LockMax(w)

\* M gives, a take and a give have been made, and the count is M again
C20_Witness ==
  \E w \in CountW :
    /\ isCreated(w) /\ GivesThenTake(LockMax(w)) /\ Len(GiveTake) = LockMax(w) + 2
    /\ GiveTake[LockMax(w) + 2].op = "give"
    /\ getCount(w) = MaxCount

\* takes of task t not yet given back after the first n calls of hist
Balance(t, n) ==
  Cardinality({i \in 1..n : hist[i].op = "take" /\ hist[i].arg = t /\ hist[i].ret = 1})
  - Cardinality({i \in 1..n : hist[i].op = "give" /\ hist[i].arg = t /\ hist[i].ret = 1})

\* C21: a take of a recursive mutex by the task that owns it returns true;
\* a take by another task succeeds only when the owner has given as many times
\* as it took, and succeeds then; each give of the owner returns true.
C21_RecursiveMutex ==
  \A w \in MutexW : phase[w] = "alive" /\ isCreated(w) =>
    \A i \in 1..Len(hist) :
      LET c == hist[i] IN
      /\ c.op = "take" /\ Balance(c.arg, i - 1) > 0 => c.ret = 1
      /\ c.op = "take" /\ c.ret = 1 => \A u \in TaskIds \ {c.arg} : Balance(u, i - 1) = 0
      /\ c.op = "take" /\ (\A u \in TaskIds : Balance(u, i - 1) = 0) => c.ret = 1
      /\ c.op = "give" /\ Balance(c.arg, i - 1) > 0 => c.ret = 1

\* a task took the mutex MaxDepth times, another task was refused while the
\* owner had given fewer times, and got it once the owner had given them all
C21_Witness ==
  \E w \in MutexW, t \in TaskIds, u \in TaskIds :
    /\ t # u /\ isCreated(w) /\ Len(hist) = MutexMax
    /\ \A i \in 1..MaxDepth : hist[i] = [op |-> "take", w |-> w, arg |-> t, ret |-> 1]
    /\ hist[MaxDepth + 1] = [op |-> "give", w |-> w, arg |-> t, ret |-> 1]
    /\ hist[MaxDepth + 2] = [op |-> "take", w |-> w, arg |-> u, ret |-> 0]
    /\ Balance(t, MutexMax - 1) = 0
    /\ hist[MutexMax] = [op |-> "take", w |-> w, arg |-> u, ret |-> 1]

\* the first k calls made on the buffer are the first k calls of the scenario
SplitShape(k) ==
  /\ k <= Len(SplitScenario) /\ Len(Calls) >= k
  /\ \A i \in 1..k :
       /\ Calls[i].op = SplitScenario[i]
       /\ Calls[i].op = "send" => Len(Calls[i].arg) = SplitScenarioSizes[i]

\* Every successful receive among the calls h hands out, head then tail, the
\* bytes of the oldest item sent and not yet received (the head of Q).
RECURSIVE ReceivesInOrder(_, _)
ReceivesInOrder(h, Q) ==
  IF h = <<>> THEN TRUE
  ELSE LET c == Head(h) IN
    IF c.op = "send" /\ c.ret = 1 THEN ReceivesInOrder(Tail(h), Append(Q, c.arg))
    ELSE IF c.op = "receive" /\ c.ret.ok = 1
      THEN Q # <<>> /\ c.ret.head \o c.ret.tail = Head(Q) /\ c.ret.head # <<>>
           /\ ReceivesInOrder(Tail(h), Tail(Q))
    ELSE ReceivesInOrder(Tail(h), Q)

\* C22: in a 64-byte allow-split ring buffer of any storage policy, an 8-byte
\* and a 20-byte item are sent, both are received with a non-null head equal
\* to the bytes sent and a null tail, and returned; a third send of 20 bytes
\* then succeeds, and its receive gives a non-null head and a non-null tail
\* whose concatenation, head then tail, is the bytes sent.  Every receive, in
\* this scenario and in any other, hands out the bytes of the oldest item.
C22_SplitWraps ==
  \A w \in SplitW : FromEmpty(w) =>
    /\ \A i \in 1..Len(Calls) :
         SplitShape(i) /\ Calls[i].op \in {"send", "receive"} =>
           IF Calls[i].op = "send" THEN Calls[i].ret = 1 ELSE Calls[i].ret.ok = 1
    /\ SplitShape(3) => Calls[3].ret.head = Calls[1].arg /\ Calls[3].ret.tail = <<>>
    /\ SplitShape(4) => Calls[4].ret.head = Calls[2].arg /\ Calls[4].ret.tail = <<>>
    /\ SplitShape(8) =>
         /\ Calls[8].ret.head # <<>> /\ Calls[8].ret.tail # <<>>
         /\ Calls[8].ret.head \o Calls[8].ret.tail = Calls[7].arg
    /\ ReceivesInOrder(Calls, <<>>)

\* the scenario has been run to its end and the third item came in two parts
C22_Witness ==
  \E w \in SplitW :
    /\ FromEmpty(w) /\ SplitShape(8)
    /\ Calls[8].ret.ok = 1 /\ Calls[8].ret.tail # <<>>
    /\ Len(Calls[8].ret.head) + Len(Calls[8].ret.tail) = LargeSize

\* C23: the size REQUIRED_SIZE computes from Length covers the header and the
\* alignment of each item, so the sends into an empty no-split buffer declared
\* with Length = k * sizeof(item), or more, succeed for the first k items.
C23_RequiredSizeHoldsItems ==
  \A w \in SizingW : FromEmpty(w) =>
    \A k \in 1..Len(Calls) :
      k <= RbLengthOf(Addr(w)) \div RbItemSize /\ AllOp("send", 1, k) => Calls[k].ret = 1

\* C24, as stated: token == ringBuffer holds exactly when the ring buffer has
\* an item to read at the time of the test.
C24_EqIsReadability ==
  [][(last'.op = "eq" /\ Kind(last'.w) = "ringbuf")
     => (last'.ret = 1 <=> store[handle[last'.w]] # <<>>)]_vars

\* C24, amended: token == member holds exactly when the token is the member's
\* own entry in the queue set, for ring buffers (where xRingbufferCanRead
\* decides it) as for locks and queues, whether or not the ring buffer has an
\* item to read; a token select returns matches one member, the one whose
\* signal produced it, and that member is in the set.
C24_EqIsMembership ==
  [][/\ last'.op = "eq" => last'.ret = Bool(last'.arg = handle[last'.w])
     /\ (last'.op = "select" /\ last'.ret # NULL) =>
          \E m \in Members :
            /\ isCreated(m) /\ container[handle[m]] = handle["q_set"]
            /\ TokenEq(last'.ret, m)
            /\ \A x \in Members \ {m} : ~TokenEq(last'.ret, x)]_vars

\* the token of the ring buffer matched it in a test made when the buffer,
\* still in the set, had nothing to read
C24_Witness ==
  /\ last.op = "eq" /\ last.w = "rb_ext" /\ last.ret = 1
  /\ store[handle["rb_ext"]] = <<>>
  /\ container[handle["rb_ext"]] = handle["q_set"]

\* C25: with a zero wait, add and push on a full queue, pop and peek on an
\* empty queue, take on a lock that is not available, send on a ring buffer
\* without room for the item and receive on an empty ring buffer return false
\* (nullptr) at once: the caller is not left waiting, and what the resources
\* hold is what they held before the call.
C25_ZeroWaitFailsClean ==
  [][LET c == last'
         h == handle[c.w]
     IN c.op \in ZeroOps /\ isCreated(c.w) =>
       /\ (c.op \in {"add", "push"} /\ Len(store[h]) = QueueLength(c.w)) => c.ret = 0
       /\ (c.op \in {"pop", "peek", "take", "receive"} /\ store[h] = <<>>) => c.ret = 0
       /\ (c.op = "send" /\ RbFree(h) < RbItemCost) => c.ret = 0
       /\ c.ret = 0 => /\ store' = store /\ held' = held
                       /\ handle' = handle /\ container' = container
                       /\ waiting' = NoWait]_vars

\* an add has just been refused by the full queue, which holds QLen items
C25_Witness ==
  /\ last.op = "add" /\ last.ret = 0 /\ last.w = "q_ext"
  /\ isCreated("q_ext") /\ Len(store[handle["q_ext"]]) = QLen
  /\ isCreated("rb_ext") /\ RbFree(handle["rb_ext"]) < RbItemCost

\* C26: a FromISR operation on a created queue, ring buffer or queue set never
\* leaves a task blocked: it returns 0 (false, null) when the queue or the
\* buffer is full, or the queue or the set is empty.  The handler's task_woken
\* flag, pdFALSE when the handler starts, is set by the operation exactly when
\* the operation made ready the consumer task (blocked on the set, which had
\* no event and has one now) and the consumer's priority is above the
\* interrupted task's; the operation never clears the flag.
C26_FromISRNeverBlocks ==
  [][LET c == last'
         h == handle[c.w]
         madeReady == /\ waiting # NoWait
                      /\ store[handle[waiting.set]] = <<>>
                      /\ store'[handle[waiting.set]] # <<>>
     IN (c.op \in IsrOps \ {"select", "select_blocked"} /\ isCreated(c.w)) =>
       /\ waiting' = waiting
       /\ (c.op \in {"addFromISR", "pushFromISR"} /\ Len(store[h]) = QueueLength(c.w))
            => c.ret = 0
       /\ (c.op = "sendFromISR" /\ RbFree(h) < RbItemCost) => c.ret = 0
       /\ (c.op \in {"popFromISR", "selectFromISR"} /\ store[h] = <<>>) => c.ret = 0
       /\ isr'.woken = (isr.woken \/ (madeReady /\ isr.higher))
       /\ isr'.higher = isr.higher]_vars

\* C26 witness: addFromISR has put an item in the queue while the consumer,
\* of a priority above the interrupted task's, was blocked in select on the
\* queue's set; the flag is set and the consumer has not run yet.
C26_Witness ==
  /\ last.op = "addFromISR" /\ last.ret = 1
  /\ isr.woken /\ isr.higher
  /\ waiting # NoWait
  /\ store[handle["q_set"]] = <<handle["q_ext"]>>

\* C30: for each of the three stream buffers, once created, available bytes
\* plus available spaces is BufferSize in every state (so after every send,
\* receive and reset); a send of n bytes with n no more than the free space
\* returns n and puts the bytes behind those in the buffer; a receive returns
\* the oldest bytes, in order; when a send of n bytes to the empty buffer is
\* followed by a receive of n bytes, the receive returns those bytes and
\* leaves the buffer empty.
C30_BytesPlusSpaces ==
  [][LET c == last'
         h == handle[c.w]
     IN /\ \A w \in BufferW : isCreated(w)' =>
             getAvailableBytes(w)' + DataBuffer_getAvailableSpaces(w)' = BufferSize
        /\ (c.op = "sb_send" /\ isCreated(c.w)
            /\ Len(c.arg) <= DataBuffer_getAvailableSpaces(c.w)) =>
             /\ c.ret = Len(c.arg)
             /\ store'[h] = store[h] \o c.arg
        /\ (c.op = "sb_receive" /\ isCreated(c.w)) =>
             /\ store[h] = c.ret \o store'[h]
             /\ Len(c.ret) = Min(c.arg, Len(store[h]))
        /\ (/\ c.op = "sb_receive" /\ last.op = "sb_send" /\ last.w = c.w
            /\ isCreated(c.w) /\ store[h] = last.arg /\ c.arg = Len(last.arg)) =>
             /\ c.ret = last.arg
             /\ store'[h] = <<>>
        /\ (c.op = "sb_reset" /\ isCreated(c.w)) =>
             (c.ret = 1 /\ store'[h] = <<>>)]_vars

\* C30 witness: the external-storage buffer, holding one byte, was sent two
\* more, which filled it.
C30_Witness ==
  /\ last.op = "sb_send" /\ last.w = "sb_ext" /\ last.ret = 2
  /\ isCreated("sb_ext") /\ store[handle["sb_ext"]] = <<1, 1, 2>>
  /\ DataBuffer_getAvailableSpaces("sb_ext") = 0

\* the capacity figures of w: kernel-side buffer size, and maximum item size
\* and free size (ring buffer) or available spaces and bytes (stream buffer)
Figures(w) ==
  IF Kind(w) = "ringbuf"
    THEN <<RingbufferSize(handle[w]), getMaxItemSize(w), getFreeSize(w)>>
    ELSE <<StreamBufferLength(w), DataBuffer_getAvailableSpaces(w), getAvailableBytes(w)>>

\* C27: when an operation that was applied to one storage variant of a ring
\* buffer or stream buffer is applied to the next variant (dynamic, then
\* static, then external), the same operations having been applied to both
\* before, it returns the same value, and the two variants then hold the same
\* items and report the same capacity figures; RbLength is not a multiple of 4.
C27_StorageVariantsEquivalent ==
  [][\A w \in EquivW :
       (last'.w = w /\ last'.op \in EquivOps /\ Before(w) # "none") =>
         /\ last.w = Before(w) /\ last.op = last'.op /\ last.arg = last'.arg
         /\ last'.ret = last.ret
         /\ store'[handle[w]] = store'[handle[Before(w)]]
         /\ held'[handle[w]] = held'[handle[Before(w)]]
         /\ Figures(w)' = Figures(Before(w))']_vars

\* C27 witness: a send to the full ring buffer has just failed in the external
\* variant, as it had in the other two, the buffers' size having been rounded
\* up from RbLength; the stream buffers hold two bytes each.
C27_Witness ==
  /\ last.op = "send" /\ last.w = "rb_ext" /\ last.ret = 0
  /\ RbLength % 4 # 0
  /\ \A w \in {"rb_nosp_dyn", "rb_nosp_st", "rb_ext"} :
       Len(store[handle[w]]) + held[handle[w]] = 1
  /\ \A w \in {"sb_dyn", "sb_st", "sb_ext"} : store[handle[w]] = <<1, 2>>

\* C28: create with invalid arguments on a Timer or Task that is not created
\* (Timer: arg 0 or 1; Task::create(name, function, priority, ...): arg 1)
\* returns 0, leaves the wrapper uncreated, makes no kernel call, and leaves
\* valid parameters that the Task has stored valid, so that a later create()
\* still finds the parameters of the constructor.
C28_InvalidCreateNoSideEffect ==
  [][(/\ last'.op = "create"
      /\ \/ last'.w = "timer" /\ last'.arg \in {0, 1}
         \/ last'.w = "task" /\ last'.arg = 1
      /\ handle[last'.w] = NULL)
     => (/\ last'.ret = 0
         /\ handle' = handle /\ kobj' = kobj
         /\ isValid => isValid')]_vars

\* C29 as stated: once abortDelay has taken the Task out of its wait, the
\* pending select returns null.
C29_AbortedCallFails ==
  [][(waiting.aborted /\ last'.op = "select") => last'.ret = NULL]_vars

\* C29: abortDelay returns 1 exactly when the Task is created and Blocked, and
\* then the Task is Ready and its wait is over (no tick is waited for); it
\* returns 0 and changes nothing otherwise.  The pending select then returns
\* null if the set still has no event when the Task runs, and the event if
\* one has arrived in between.
C29_AbortDelay ==
  [][/\ last'.op = "abortDelay" =>
          /\ last'.ret = Bool(isCreated("task") /\ Blocked)
          /\ last'.ret = 1 => (getState("task")' = "eReady" /\ waiting'.aborted)
          /\ last'.ret = 0 => waiting' = waiting
          /\ store' = store
     /\ waiting.aborted =>
          /\ waiting.ticks = 0
          /\ last'.op # "select_blocked"
          /\ last'.op = "select" =>
               /\ waiting' = NoWait
               /\ last'.ret = (IF store[handle[waiting.set]] = <<>>
                                 THEN NULL ELSE Head(store[handle[waiting.set]]))]_vars

\* C29 witness: abortDelay has just taken the created Task out of its wait on
\* the set, which has no event: the Task is Ready and its select is about to
\* return null.
C29_Witness ==
  /\ last.op = "abortDelay" /\ last.ret = 1
  /\ isCreated("task") /\ getState("task") = "eReady"
  /\ waiting.aborted /\ waiting.set = "q_set"
  /\ store[handle["q_set"]] = <<>>
  /\ ENABLED SelectTimeout

\* C31 as stated: when start or reset has returned true the timer is active,
\* and when stop has returned true it is not.
C31_CommandTakesEffectAtOnce ==
  /\ (last.op \in {"start", "reset"} /\ last.ret = 1) => isActive("timer")
  /\ (last.op = "stop" /\ last.ret = 1) => ~isActive("timer")

\* C31: start, stop and reset on the created timer return 1 and queue their
\* command.  When the timer service task takes a start or a reset the timer
\* is active and expires one period after the command was sent; when it takes
\* a stop the timer is inactive.  The callback is invoked only for an active
\* timer whose period has elapsed, once, and leaves it inactive: a stopped
\* timer's callback is not invoked until a start or reset has been taken.
\* isActive returns the timer's state and changes nothing.
C31_OneShotTimer ==
  [][/\ (last'.op \in {"start", "stop", "reset"} /\ isCreated("timer")) =>
          /\ last'.ret = 1
          /\ tmr'.cmds = Append(tmr.cmds, [op |-> last'.op, age |-> 0])
          /\ tmr'.active = tmr.active /\ tmr'.left = tmr.left
     /\ (last'.op = "timerTask") =>
          /\ tmr.cmds # <<>> /\ tmr'.cmds = Tail(tmr.cmds)
          /\ Head(tmr.cmds).op \in {"start", "reset"} =>
               (isActive("timer")' /\ tmr'.left = timer_period - Head(tmr.cmds).age)
          /\ Head(tmr.cmds).op = "stop" => ~isActive("timer")'
          /\ tmr'.expired = tmr.expired
     /\ (last'.op = "timerCb") =>
          /\ isActive("timer") /\ tmr.left = 0
          /\ ~isActive("timer")' /\ tmr'.expired
     /\ (last'.op # "timerCb") => tmr'.expired = tmr.expired
     /\ (last'.op = "isActive") =>
          (last'.ret = Bool(isActive("timer")) /\ tmr' = tmr)]_vars

\* C31 witness: the callback has just been invoked, the timer having been
\* started or reset and its period having elapsed; it is inactive again and
\* no command is pending.
C31_Witness ==
  /\ last.op = "timerCb"
  /\ isCreated("timer") /\ ~isActive("timer")
  /\ tmr.expired /\ tmr.cmds = <<>>

\* C32: the null token matches no member: (null token == member) is 0 for
\* every queue, lock and ring buffer wrapper, created or not.
C32_NullTokenMatchesNothing ==
  (last.op = "eq" /\ last.arg = NULL) => last.ret = 0

\* C33: a successful add, send or give on a member that is registered in a
\* queue set appends exactly one event to that set, a select that finds an
\* event returns it and removes exactly one, a select that finds none returns
\* null and removes nothing (so k signals are followed by k non-null selects
\* and then a null one), and the events of a set never exceed its length.
Pending(h) == IF h = NULL THEN 0 ELSE Len(store[h])

C34_TokenThenItem ==
  [][\A w \in Members :
       /\ (token' # NULL /\ TokenEq(token, w)' /\ waiting' = NoWait)
          => \A h \in Addrs : handle'[w] = h => store'[h] # <<>>
       /\ (token # NULL /\ TokenEq(token, w) /\ last'.w = w
           /\ last'.op \in {"pop", "take", "receive"})
          => last'.ret # 0 /\ token' = NULL]_vars

\* the consumer popped the queue for a token while the queue was full: the
\* producers had gone on adding after the event the token stands for
C34_Witness ==
  /\ last.op = "pop" /\ last.ret # 0 /\ token = NULL
  /\ container[Addr("q_ext")] = Addr("q_set")
  /\ Len(store[Addr("q_ext")]) = QLen - 1
  /\ Len(store[Addr("q_set")]) = QLen

\* C35: a task blocked with no timeout in pop, take or select stays blocked
\* while the queue / lock / set is empty, returns only with a success result,
\* and once an item, a count or an event is there it is eventually resumed
\* with that result; no call returns success on an empty resource.
WaitsForever(w) ==
  waiting # NoWait /\ waiting.set = w /\ waiting.ticks = portMAX_DELAY

Resumed(w) ==
  waiting = NoWait /\ last.w = w /\ last.op \in {"pop", "take", "select"} /\ last.ret # 0

C35_BlockedUntilSignalled ==
  /\ \A w \in BlockW : (WaitsForever(w) /\ store[handle[w]] # <<>>) ~> Resumed(w)
  /\ [][\A w \in BlockW :
          /\ (WaitsForever(w) /\ store[handle[w]] = <<>>) => WaitsForever(w)'
          /\ (WaitsForever(w) /\ waiting' = NoWait)
             => last'.w = w /\ last'.ret # 0 /\ store[handle[w]] # <<>>
          /\ (last'.w = w /\ last'.op \in {"pop", "take", "select"} /\ last'.ret # 0)
             => isCreated(w) /\ store[handle[w]] # <<>>]_vars

\* the consumer is blocked in pop with no timeout and an item has been added:
\* the kernel is about to resume it
C35_Witness ==
  /\ WaitsForever("q_ext") /\ store[handle["q_ext"]] # <<>>
  /\ ENABLED Resume

\* C36 (as stated): a mutex is created available and has at most one holder;
\* while task A holds it, it stays A's until A calls give.
Holder(w) == IF isCreated(w) /\ store[handle[w]] # <<>> THEN Head(store[handle[w]]) ELSE 0

C37_BinarySemaphore ==
  /\ getCount("sem") = 0
  /\ [][/\ getCount("sem")' <= 1
        /\ (last'.w = "sem" /\ last'.op = "take")
           => /\ last'.ret = Bool(getCount("sem") = 1)
              /\ getCount("sem")' = 0
        /\ (last'.w = "sem" /\ last'.op = "give" /\ isCreated("sem"))
           => /\ last'.ret = Bool(getCount("sem") = 0)
              /\ getCount("sem")' = 1]_vars

\* a give has just been refused: the semaphore already holds its token
C37_Witness ==
  /\ last = [op |-> "give", w |-> "sem", arg |-> 0, ret |-> 0]
  /\ isCreated("sem") /\ getCount("sem") = 1

\* C38: the count of a counting semaphore of max count M stays within 0..M,
\* as does what getCount() returns: a give at M returns false and leaves the
\* count at M, a zero-wait take at 0 returns false and leaves it at 0, and
\* any other give or take returns true and moves the count by one.
C38_CountWithinMax ==
  [][\A w \in CountW :
       /\ getCount(w)' \in 0..LockMax(w)
       /\ (last'.w = w /\ last'.op = "getCount")
          => last'.ret = getCount(w) /\ last'.ret \in 0..LockMax(w)
       /\ (last'.w = w /\ last'.op = "give" /\ isCreated(w))
          => IF getCount(w) = LockMax(w)
               THEN last'.ret = 0 /\ getCount(w)' = LockMax(w)
               ELSE last'.ret = 1 /\ getCount(w)' = getCount(w) + 1
       /\ (last'.w = w /\ last'.op = "take" /\ isCreated(w))
          => IF getCount(w) = 0
               THEN last'.ret = 0 /\ getCount(w)' = 0
               ELSE last'.ret = 1 /\ getCount(w)' = getCount(w) - 1]_vars

\* a give has just been refused at the max count while the other counting
\* semaphore is empty
C38_Witness ==
  /\ last = [op |-> "give", w |-> "sem_count_st", arg |-> 0, ret |-> 0]
  /\ getCount("sem_count_st") = MaxCount
  /\ isCreated("sem_count_dyn") /\ getCount("sem_count_dyn") = 0

\* C39: the bytes of an item stay taken from its send until its returnItem:
\* a receive hands out the oldest item sent, unchanged, and leaves the free
\* size as it was, a send is refused while the items unread or not yet
\* returned leave no room for it, each returnItem gives back one item's bytes,
\* and once every item has been received and returned the free size is the
\* one of the empty buffer.
Taken_bytes(w) == RingbufferSize(handle[w]) - RbFree(handle[w])

C39_SpaceBackOnReturn ==
  [][\A w \in ReturnW : isCreated(w) =>
       /\ (last'.w = w /\ last'.op = "send")
          => IF last'.ret = 1
               THEN /\ Taken_bytes(w)' = Taken_bytes(w) + RbItemCost
                    /\ Taken_bytes(w)' <= RingbufferSize(handle[w])
                    /\ store'[handle[w]] = Append(store[handle[w]], last'.arg)
               ELSE /\ Taken_bytes(w) + RbItemCost > RingbufferSize(handle[w])
                    /\ store'[handle[w]] = store[handle[w]]
       /\ (last'.w = w /\ last'.op = "receive")
          => /\ getFreeSize(w)' = getFreeSize(w)
             /\ Taken_bytes(w)' = Taken_bytes(w)
             /\ last'.ret = (IF store[handle[w]] = <<>> THEN 0 ELSE Head(store[handle[w]]))
       /\ (last'.w = w /\ last'.op = "returnItem")
          => Taken_bytes(w)' = Taken_bytes(w) - RbItemCost
       /\ (store'[handle[w]] = <<>> /\ held'[handle[w]] = 0)
          => Taken_bytes(w)' = 0 /\ getFreeSize(w)' = getMaxItemSize(w)]_vars

\* an item was sent, received and has just been returned: the buffer is as
\* free as when it was created, while another buffer still holds a received
\* item and has no room
C39_Witness ==
  /\ last = [op |-> "returnItem", w |-> "rb_nosp_st", arg |-> 0, ret |-> 1]
  /\ getFreeSize("rb_nosp_st") = getMaxItemSize("rb_nosp_st")
  /\ isCreated("rb_ext") /\ held[handle["rb_ext"]] = 1 /\ getFreeSize("rb_ext") = 0

\* C40: remove(member) of a member that is in the set and empty returns true
\* and takes it out of the set; a member that is in no set has no event in any
\* set and its signals post none, so select never returns its token (what
\* select returns is always a member of that set); and add of a removed,
\* empty member to either set returns true.
InSet(h, s) == h # NULL /\ s # NULL /\ container[h] = s

Events(s) == {store[s][i] : i \in 1..Len(store[s])}

====
